---- MODULE Spec2Model ----
(***************************************************************************)
(* Model of the retrieval-augmented generation pipeline of podcast-poc:    *)
(* HighQualityRAGService (src/src/services/highQualityRAG.service.js), the *)
(* streaming consumer of HighQualityRAG.jsx and the retry logic of         *)
(* OpenAIParallelService (src/src/services/openaiParallel.service.js).     *)
(*                                                                         *)
(* Strings are sequences of character codes.  Numbers that the code keeps  *)
(* as fractions (scores, importance) are scaled by 100.                    *)
(***************************************************************************)
EXTENDS Integers, Sequences, FiniteSets, TLC

\* ------------------------------------------------------------------------
\* Bounds of the model
\* ------------------------------------------------------------------------
\* a session of questions on an ingested document (SpecQuery):
\* generateResponse calls and clock advances in one run
MaxQueries == 2
MaxTicks == 1
\* one text ingested and asked for (SpecReuse): processPDF calls,
\* generateResponse calls, failing embedding calls, cleanup or importIndex
\* calls, and importIndex calls among the latter, in one run
ReuseIngests == 1
ReuseQueries == 1
ReuseFailures == 1
ReuseAdminCalls == 1
ReuseImports == 1
\* one question whose embedding is retried (SpecRetry)
RetryQueries == 1
MaxFailures == 4
\* questions asked of the service whose response cache is full (SpecCache)
CacheQueries == 2
\* questions asked of the service whose embedding cache holds a hundred
\* vectors, and failing embedding calls (SpecGrow)
GrowQueries == 1
GrowFailures == 1
\* questions asked of a service that is not initialized, or whose calls
\* fail, and failing embedding calls (SpecFail)
FailQueries == 2
FailFailures == 4
\* exportIndex and importIndex calls on the service as constructed, or on
\* the loaded service (SpecIndex)
IndexCalls == 3
\* ingestions of one document, and failed requests among them (SpecOrder)
OrderIngests == 1
OrderFailures == 5
\* ingestions of a document without text, and failed requests among them
\* (SpecBlank)
BlankIngests == 1
BlankFailures == 2
\* initialize, importIndex and cleanup calls around an ingestion, and failed
\* requests (SpecAdmin)
AdminCalls == 2
AdminIngests == 1
AdminFailures == 2
\* questions asked with a context budget (SpecContext)
ContextCalls == 1
\* ingestions of a document whose page fills a chunk, and failed requests
\* among them (SpecFull)
FullIngests == 1
FullFailures == 2
\* ingestions on one service instance, one after the other, and failed
\* requests among them (SpecDocs)
DocsIngests == 2
DocsFailures == 1
\* the length of the texts given to a splitter (SpecSplit)
MaxTextLen == 5
\* questions asked of the service whose index holds more documents than a
\* retrieval returns (SpecWide)
WideCalls == 2
\* the whole service from its construction (Spec): processPDF calls,
\* generateResponse calls, failing embedding calls in one run
SysIngests == 1
SysQueries == 1
SysFailures == 1
SysAdmin == 1
\* ingestions alone (SpecIngest): processPDF calls, failing embedding calls
MaxIngests == 1
IngestFailures == 5
\* a run of the parallel request service: processParallel calls, requests
\* handed to one of them and chat calls that fail; or a run of one question
\* whose embedding fails (SpecPar)
MaxParCalls == 2
MaxParRequests == 2
MaxParFailures == 4
ParQueries == 1
ParFailures == 1

\* ------------------------------------------------------------------------
\* Program constants
\* ------------------------------------------------------------------------
embeddingDimensions == 3072
topK == 10
batchSize == 5
maxRetries == 3
retryDelay == 1000
chunkSize == 800
maxContextTokens == 12000
chunkOverlap == 200
ResponseTTL == 3600000
ResponseCacheMax == 100
ExportCacheLimit == 100
WorkerPagesPerBatch == 5
parMaxRetries == 3
parRetryDelay == 1000
parMaxBackoff == 32000
defaultConcurrency == 8
maxConcurrency == 20

\* ------------------------------------------------------------------------
\* Strings
\* ------------------------------------------------------------------------
UnderscoreChar == 95
\* the white space and line terminator characters of ECMAScript: tab, line
\* feed, vertical tab, form feed, carriage return, space, no-break space,
\* U+1680, U+2000 to U+200A, U+2028, U+2029, U+202F, U+205F, U+3000, U+FEFF
WhiteSpace ==
  {9, 10, 11, 12, 13, 32, 160, 5760, 8232, 8233, 8239, 8287, 12288, 65279}
    \cup (8192..8202)

S_Aa == <<65, 97>>
S_BB == <<66, 66>>
S_C == <<67>>
S_D == <<68>>
S_Blank == <<32>>

RECURSIVE TrimStart(_)
TrimStart(s) ==
  IF s # <<>> /\ Head(s) \in WhiteSpace THEN TrimStart(Tail(s)) ELSE s

RECURSIVE TrimEnd(_)
TrimEnd(s) ==
  IF s # <<>> /\ s[Len(s)] \in WhiteSpace
  THEN TrimEnd(SubSeq(s, 1, Len(s) - 1)) ELSE s

\* String.prototype.trim
Trim(s) == TrimEnd(TrimStart(s))

\* ToInt32(31 * h + c) for a 32-bit signed h, computed on 16-bit halves so
\* that no intermediate value leaves the 32-bit range
HashStep(h, c) ==
  LET lo == h % 65536
      hi == (h \div 65536) % 65536
      lo2 == (lo * 31) + c
      hi2 == ((hi * 31) + (lo2 \div 65536)) % 65536
      hiS == IF hi2 >= 32768 THEN hi2 - 65536 ELSE hi2
  IN (hiS * 65536) + (lo2 % 65536)

RECURSIVE HashFrom(_, _)
\* the loop over the characters of s, from the hash h: the first half of s,
\* then the second half from the hash of the first (the test makes the
\* first half be computed before the second is begun)
HashFrom(h, s) ==
  IF s = <<>> THEN h
  ELSE IF Len(s) = 1 THEN HashStep(h, s[1])
  ELSE LET half == Len(s) \div 2
           first == HashFrom(h, SubSeq(s, 1, half))
       IN IF first \in Int
          THEN HashFrom(first, SubSeq(s, half + 1, Len(s)))
          ELSE first

Digit36(d) == IF d < 10 THEN 48 + d ELSE 87 + d

RECURSIVE Digits36(_)
Digits36(n) ==
  IF n < 36 THEN <<Digit36(n)>>
  ELSE Digits36(n \div 36) \o <<Digit36(n % 36)>>

\* Number.prototype.toString(36)
ToString36(n) ==
  IF n >= 0 THEN Digits36(n)
  ELSE LET q == -(n + 1)
           r == ((q % 36) + 1) % 36
           d == IF (q % 36) = 35 THEN (q \div 36) + 1 ELSE q \div 36
       IN <<45>> \o (IF d = 0 THEN <<>> ELSE Digits36(d)) \o <<Digit36(r)>>

\* generateHash: the 32-bit rolling hash of the text, in base 36
generateHash(text) == ToString36(HashFrom(0, text))

RECURSIVE SplitOn(_, _, _)
\* String.prototype.split on one character; cur is the piece being read
SplitOn(s, sep, cur) ==
  IF s = <<>> THEN <<cur>>
  ELSE IF Head(s) = sep THEN <<cur>> \o SplitOn(Tail(s), sep, <<>>)
  ELSE SplitOn(Tail(s), sep, Append(cur, Head(s)))

RECURSIVE JoinWith(_, _)
JoinWith(parts, sep) ==
  IF parts = <<>> THEN <<>>
  ELSE IF Len(parts) = 1 THEN parts[1]
  ELSE parts[1] \o sep \o JoinWith(Tail(parts), sep)

\* The external embedding endpoint gives one vector per input text
Embedding(text) == <<"embedding", text>>

\* ------------------------------------------------------------------------
\* Map: a sequence of entries in insertion order
\* ------------------------------------------------------------------------
MapHas(m, k) == \E i \in 1..Len(m) : m[i].key = k

MapIndex(m, k) == CHOOSE i \in 1..Len(m) : m[i].key = k

MapGet(m, k) == m[MapIndex(m, k)].value

\* Map.prototype.set: an existing key keeps its place, a new key goes last
MapSet(m, k, v) ==
  IF MapHas(m, k)
  THEN [m EXCEPT ![MapIndex(m, k)] = [key |-> k, value |-> v]]
  ELSE Append(m, [key |-> k, value |-> v])

MapDelete(m, k) == SelectSeq(m, LAMBDA e : e.key # k)

RECURSIVE ToDecimal(_)
\* the decimal digits of a non-negative number, as in a template literal
ToDecimal(n) ==
  IF n < 10 THEN <<48 + n>> ELSE ToDecimal(n \div 10) \o <<48 + (n % 10)>>

\* ------------------------------------------------------------------------
\* Inputs of the model
\* ------------------------------------------------------------------------
\* "a.pdf" with the pages "Aa" and "C"; "b.pdf" with the page "BB"
\* ("Aa" and "BB" have the same generateHash)
N_a == <<97>>
N_b == <<98>>
File_a == [name |-> N_a, pages |-> <<S_Aa, S_C>>]
File_b == [name |-> N_b, pages |-> <<S_BB>>]
Files == {File_a, File_b}
\* "c.pdf" has six pages "C": one more than a batch holds
N_c == <<99>>
File_c == [name |-> N_c, pages |-> <<S_C, S_C, S_C, S_C, S_C, S_C>>]
IngestFiles == {File_a, File_c}
\* "l.pdf": its second page is longer than a chunk (3201 characters "a")
N_l == <<108>>
LongPage == [i \in 1..(4 * chunkSize + 1) |-> 97]
File_l == [name |-> N_l, pages |-> <<S_C, LongPage, S_Aa, S_C, S_C, S_D>>]
\* "d.pdf" has six pages: five "C" and a sixth, "D", which is embedded in
\* the second batch
N_d == <<100>>
File_d == [name |-> N_d, pages |-> <<S_C, S_C, S_C, S_C, S_C, S_D>>]
OrderFiles == {File_d, File_l}
\* "e.pdf" has one page, without text
N_e == <<101>>
File_e == [name |-> N_e, pages |-> <<<<>>>>]
BlankFiles == {File_a, File_e}
\* "f.pdf": its page fills a chunk: two words of 1599 and 1600 characters
\* "a" and the space between them, 3200 characters, 800 tokens for the
\* splitter
N_f == <<102>>
FullPage == [i \in 1..(4 * chunkSize) |-> IF i = 2 * chunkSize THEN 32 ELSE 97]
File_f == [name |-> N_f, pages |-> <<FullPage>>]
FullFiles == {File_a, File_f}

\* "Aa" is a chunk of a.pdf, "BB" has the hash of "Aa", "D" is in no file
Queries == {S_Aa, S_BB, S_Blank}
LoadedQueries == {S_Aa, S_Blank}
NewQueries == {S_D}
CacheProbes == {S_Aa}

\* what an external call can come back with: HTTP status and error code
Ok == [status |-> 200, code |-> "none"]
ErrRateLimit == [status |-> 429, code |-> "none"]
ErrServer == [status |-> 503, code |-> "none"]
ErrBadRequest == [status |-> 400, code |-> "none"]
ErrConnReset == [status |-> 0, code |-> "ECONNRESET"]
NoErr == [status |-> 0, code |-> "none"]
\* the TypeError of a call on a client handle that is null
ErrNoClient == [status |-> 0, code |-> "TypeError"]

\* failures seen by the embedding call of the RAG service
EmbedErrors == {ErrRateLimit, ErrBadRequest}
\* failures seen by the chat call of the parallel service
ParErrors == {ErrRateLimit, ErrServer, ErrBadRequest, ErrConnReset}

\* the failures the specification calls transient
Transient(err) ==
  err.status \in {429, 500, 502, 503, 504}
  \/ err.code \in {"ECONNRESET", "ETIMEDOUT"}

\* similarity scores of the index, times 100; 0 stands for a missing score
VectorScores == {90}
TextScores == {0}

\* clock advances, in milliseconds
TickSteps == {ResponseTTL - 1, ResponseTTL}

\* ------------------------------------------------------------------------
\* Pure helpers of HighQualityRAGService
\* ------------------------------------------------------------------------
IsDigit(c) == c >= 48 /\ c <= 57
IsUpper(c) == c >= 65 /\ c <= 90
\* the line terminators at which ^ and $ match under the flag m: line feed,
\* carriage return, U+2028, U+2029
LineBreaks == {10, 13, 8232, 8233}
\* \s of a regular expression: white space and line terminators
IsSpace(c) == c \in WhiteSpace

CeilDiv(a, b) == (a + b - 1) \div b

\* estimateTokens: Math.ceil(text.length / 3)
estimateTokens(text) == CeilDiv(Len(text), 3)

LineStart(s, i) == i = 1 \/ s[i - 1] \in LineBreaks
LineEnd(s, j) == j = Len(s) \/ s[j + 1] \in LineBreaks

\* text.match(/^[A-Z\s\d\.]{3,50}$/m)
HasTitleLine(s) ==
  \E i \in 1..Len(s) :
    /\ LineStart(s, i)
    /\ \E j \in (i + 2)..(i + 49) :
         /\ j <= Len(s)
         /\ LineEnd(s, j)
         /\ \A k \in i..j : IsUpper(s[k]) \/ IsSpace(s[k]) \/ IsDigit(s[k]) \/ s[k] = 46

RECURSIVE SkipDigits(_, _)
SkipDigits(s, i) ==
  IF i <= Len(s) /\ IsDigit(s[i]) THEN SkipDigits(s, i + 1) ELSE i

\* one step of the scan of /\d+\.?\d*/g: at position st.i, a number is
\* matched and the scan goes on after it, or the scan moves by one character
NumbersStep(s, st) ==
  IF st.i > Len(s) THEN st
  ELSE IF IsDigit(s[st.i])
       THEN LET a == SkipDigits(s, st.i)
                b == IF a <= Len(s) /\ s[a] = 46 THEN a + 1 ELSE a
                e == SkipDigits(s, b)
            IN [i |-> e, n |-> st.n + 1]
       ELSE [i |-> st.i + 1, n |-> st.n]

RECURSIVE NumbersSteps(_, _, _)
\* 2^k steps of the scan, or fewer when the end of s is reached
NumbersSteps(s, st, k) ==
  IF k = 0 THEN NumbersStep(s, st)
  ELSE LET half == NumbersSteps(s, st, k - 1)
       IN IF half.i > Len(s) THEN half ELSE NumbersSteps(s, half, k - 1)

RECURSIVE StepsExponent(_)
\* the least k with 2^k >= n
StepsExponent(n) == IF n <= 1 THEN 0 ELSE 1 + StepsExponent((n + 1) \div 2)

\* (text.match(/\d+\.?\d*/g) || []).length, scanning from position i: the
\* scan takes at most Len(s) steps
CountNumbers(s, i) ==
  NumbersSteps(s, [i |-> i, n |-> 0], StepsExponent(Len(s))).n

RECURSIVE SkipSpaces(_, _)
SkipSpaces(s, i) ==
  IF i <= Len(s) /\ IsSpace(s[i]) THEN SkipSpaces(s, i + 1) ELSE i

\* text.match(/^\s*[\d\-\*•]\s+/m)
HasListMarker(s) ==
  \E i \in 1..Len(s) :
    /\ LineStart(s, i)
    /\ \E m \in i..SkipSpaces(s, i) :
         /\ m + 1 <= Len(s)
         /\ IsDigit(s[m]) \/ s[m] \in {45, 42, 8226}
         /\ IsSpace(s[m + 1])

ImportanceScale == 1000000

Times(score, tenths) == (score * tenths) \div 10

RECURSIVE Pow2(_)
Pow2(n) == IF n = 0 THEN 1 ELSE 2 * Pow2(n - 1)

Min2(a, b) == IF a < b THEN a ELSE b

\* calculateImportance, in millionths
\* (a factor of 10 tenths leaves the score as it is)
calculateImportance(text, pageNum, totalPages) ==
  LET s1 == Times(ImportanceScale, IF pageNum <= 3 THEN 13 ELSE 10)
      s2 == Times(s1, IF pageNum >= totalPages - 2 THEN 12 ELSE 10)
      s3 == Times(s2, IF HasTitleLine(text) THEN 14 ELSE 10)
      s4 == Times(s3, IF CountNumbers(text, 1) > 5 THEN 12 ELSE 10)
      s5 == Times(s4, IF HasListMarker(text) THEN 11 ELSE 10)
      s6 == Times(s5, IF Len(text) > 600 THEN 11 ELSE 10)
  IN Min2(s6, 2 * ImportanceScale)

\* ------------------------------------------------------------------------
\* SimpleTextSplitter
\* ------------------------------------------------------------------------
\* defaultTokenizer: Math.ceil(text.length / 4)
defaultTokenizer(text) == CeilDiv(Len(text), 4)

\* "\n\n", "\n", ". ", "! ", "? ", "; ", ": ", " "
Separators ==
  <<<<10, 10>>, <<10>>, <<46, 32>>, <<33, 32>>, <<63, 32>>, <<59, 32>>,
    <<58, 32>>, <<32>>>>

StartsWith(s, prefix) ==
  Len(s) >= Len(prefix) /\ SubSeq(s, 1, Len(prefix)) = prefix

\* String.prototype.includes
Includes(s, sep) ==
  \E i \in 1..(Len(s) - Len(sep) + 1) : SubSeq(s, i, i + Len(sep) - 1) = sep

RECURSIVE SplitSeq(_, _, _)
\* String.prototype.split on a separator of one or two characters; cur is
\* the piece being read
SplitSeq(s, sep, cur) ==
  IF s = <<>> THEN <<cur>>
  ELSE IF StartsWith(s, sep)
       THEN <<cur>> \o SplitSeq(SubSeq(s, Len(sep) + 1, Len(s)), sep, <<>>)
       ELSE SplitSeq(Tail(s), sep, Append(cur, Head(s)))

\* one part under one separator: its trimmed pieces that are not blank, or
\* the part itself when it does not hold the separator
SplitPart(part, sep) ==
  IF Includes(part, sep)
  THEN LET pieces == SplitSeq(part, sep, <<>>)
       IN SelectSeq([i \in 1..Len(pieces) |-> Trim(pieces[i])],
                    LAMBDA piece : piece # <<>>)
  ELSE <<part>>

RECURSIVE SplitParts(_, _)
SplitParts(parts, sep) ==
  IF parts = <<>> THEN <<>>
  ELSE SplitPart(Head(parts), sep) \o SplitParts(Tail(parts), sep)

RECURSIVE SplitBy(_, _)
SplitBy(parts, seps) ==
  IF seps = <<>> THEN parts
  ELSE SplitBy(SplitParts(parts, Head(seps)), Tail(seps))

splitBySeparators(text) == SplitBy(<<text>>, Separators)

RECURSIVE OverlapFrom(_, _, _, _, _)
\* the loop of getOverlapWithTokens, from word i down to the first word
OverlapFrom(words, i, overlap, currentTokens, overlapTokens) ==
  IF i = 0 THEN [text |-> overlap, tokens |-> currentTokens]
  ELSE LET word == words[i]
           wordTokens == defaultTokenizer(word)
       IN IF currentTokens + wordTokens + (IF overlap # <<>> THEN 1 ELSE 0)
               <= overlapTokens
          THEN LET next == word \o (IF overlap # <<>> THEN <<32>> \o overlap ELSE <<>>)
               IN OverlapFrom(words, i - 1, next,
                              currentTokens + wordTokens
                                + (IF next # <<>> THEN 1 ELSE 0),
                              overlapTokens)
          ELSE [text |-> overlap, tokens |-> currentTokens]

getOverlapWithTokens(text, overlapTokens) ==
  IF text = <<>> \/ overlapTokens <= 0 THEN [text |-> <<>>, tokens |-> 0]
  ELSE LET words == SplitOn(text, 32, <<>>)
       IN OverlapFrom(words, Len(words), <<>>, 0, overlapTokens)

\* chunks.push(formatChunk(currentChunk.trim(), ...)) if currentChunk.trim()
PushChunk(chunks, currentChunk) ==
  IF Trim(currentChunk) # <<>> THEN Append(chunks, Trim(currentChunk)) ELSE chunks

\* one turn of the loop over the sentences
AddSentence(acc, sentence, size, overlap) ==
  LET sentenceTokens == defaultTokenizer(sentence)
  IN IF acc.currentChunk # <<>> /\ acc.currentTokenCount + sentenceTokens + 1 > size
     THEN LET chunks == PushChunk(acc.chunks, acc.currentChunk)
          IN IF Len(chunks) > 0 /\ overlap > 0
             THEN LET overlapData == getOverlapWithTokens(chunks[Len(chunks)], overlap)
                  IN [chunks |-> chunks,
                      currentChunk |-> IF overlapData.text # <<>>
                                       THEN overlapData.text \o <<32>> \o sentence
                                       ELSE sentence,
                      currentTokenCount |-> overlapData.tokens + sentenceTokens + 1]
             ELSE [chunks |-> chunks, currentChunk |-> sentence,
                   currentTokenCount |-> sentenceTokens]
     ELSE LET next == IF acc.currentChunk # <<>>
                      THEN acc.currentChunk \o <<32>> \o sentence
                      ELSE sentence
          IN [chunks |-> acc.chunks, currentChunk |-> next,
              currentTokenCount |-> acc.currentTokenCount + sentenceTokens
                                      + (IF next # <<>> THEN 1 ELSE 0)]

RECURSIVE AddSentences(_, _, _, _)
AddSentences(acc, sentences, size, overlap) ==
  IF sentences = <<>> THEN acc
  ELSE AddSentences(AddSentence(acc, Head(sentences), size, overlap),
                    Tail(sentences), size, overlap)

\* splitText gives formatChunk objects, not strings, for a text of more
\* tokens than a chunk holds
SplitsFormatted(text, size) ==
  text # <<>> /\ defaultTokenizer(Trim(text)) > size

\* the texts of the chunks splitText returns, for a splitter of chunk size
\* size and overlap overlap
splitText(text, size, overlap) ==
  IF text = <<>> THEN <<>>
  ELSE IF ~SplitsFormatted(text, size) THEN <<Trim(text)>>
  ELSE LET acc == AddSentences([chunks |-> <<>>, currentChunk |-> <<>>,
                                currentTokenCount |-> 0],
                               splitBySeparators(Trim(text)), size, overlap)
       IN SelectSeq(PushChunk(acc.chunks, acc.currentChunk),
                    LAMBDA chunk : chunk # <<>>)

\* the id of an index entry: `${sourceName}_p${pageNumber}_c${chunkIndex}`
EntryId(sourceName, pageNumber, chunkIndex) ==
  sourceName \o <<UnderscoreChar, 112>> \o ToDecimal(pageNumber)
             \o <<UnderscoreChar, 99>> \o ToDecimal(chunkIndex)

\* the chunk records pushed to allChunks for one page
PageChunks(fileName, pageNumber, text, totalPages) ==
  LET parts == splitText(text, chunkSize, chunkOverlap)
  IN [i \in 1..Len(parts) |->
        [text |-> parts[i],
         metadata |-> [pageNumber |-> pageNumber,
                       chunkIndex |-> i - 1,
                       source |-> fileName,
                       totalTokens |-> estimateTokens(parts[i]),
                       importance |-> calculateImportance(parts[i], pageNumber, totalPages),
                       hash |-> generateHash(parts[i])]]]

\* the document inserted for a chunk and its embedding
IndexEntry(sourceName, chunk, embedding) ==
  [id |-> EntryId(sourceName, chunk.metadata.pageNumber, chunk.metadata.chunkIndex),
   text |-> chunk.text,
   embedding |-> embedding,
   pageNumber |-> chunk.metadata.pageNumber,
   source |-> chunk.metadata.source,
   chunkIndex |-> chunk.metadata.chunkIndex,
   totalTokens |-> chunk.metadata.totalTokens,
   importance |-> chunk.metadata.importance,
   hash |-> chunk.metadata.hash]

\* ------------------------------------------------------------------------
\* generateEmbeddingWithRetry: one embed of a text
\* ------------------------------------------------------------------------
\* st: "call" a request is in flight, "wait" the retry timer runs,
\*     "done" the vector is there, "failed" the error was thrown.
\* calls counts the requests sent; pre and preEver record whether, when the
\* embed began, an embed of the same text had already succeeded (since the
\* cache was last cleared or replaced / ever).
NoTask ==
  [st |-> "none", text |-> <<>>, retries |-> 0, calls |-> 0, err |-> NoErr,
   delay |-> 0, emb |-> <<>>, fromCache |-> FALSE, pre |-> FALSE,
   preEver |-> FALSE]

\* the condition under which a failed attempt is repeated (second
\* definition; the first is a variant that repeats once more)
ShouldRetryEmbedding_OneMore(err, retries) == retries <= maxRetries
ShouldRetryEmbedding(err, retries) == retries < maxRetries

\* the time waited before the retry that follows `retries` earlier retries
EmbeddingRetryWait(retries) == retryDelay * (retries + 1)

\* the guard of the cache lookup that precedes an embed (second definition;
\* the first is a variant that never finds an entry)
EmbeddingCacheHit_Never(cache, hash) == FALSE
EmbeddingCacheHit(cache, hash) == MapHas(cache, hash)

\* the attempt of generateEmbeddingWithRetry ends with `out`: the request
\* in flight has come back, or this.openai.embeddings has thrown (the client
\* handle is null, out is ErrNoClient) before any request was sent
TaskRespond(t, out) ==
  IF out = Ok
  THEN [t EXCEPT !.st = "done", !.emb = Embedding(t.text)]
  ELSE IF ShouldRetryEmbedding(out, t.retries)
       THEN [t EXCEPT !.st = "wait", !.err = out,
                      !.delay = EmbeddingRetryWait(t.retries)]
       ELSE [t EXCEPT !.st = "failed", !.err = out]

\* an embed begins: a cache hit ends it at once, a miss sends a request.
\* With a null client handle the attempt throws in the same turn and the
\* retry timer is set
TaskBegin(cache, text, client, done, doneEver) ==
  LET h == generateHash(text)
      t == [NoTask EXCEPT !.st = "call", !.text = text,
                          !.calls = IF client THEN 1 ELSE 0,
                          !.pre = text \in done, !.preEver = text \in doneEver]
  IN IF EmbeddingCacheHit(cache, h)
     THEN [NoTask EXCEPT !.st = "done", !.text = text, !.emb = MapGet(cache, h),
                         !.fromCache = TRUE, !.pre = text \in done,
                         !.preEver = text \in doneEver]
     ELSE IF client THEN t ELSE TaskRespond(t, ErrNoClient)

\* the retry timer fires: the next attempt is sent. With a null client
\* handle it throws in the same turn: the timer is set again, or the embed
\* gives up
TaskFire(t, client) ==
  LET t1 == [t EXCEPT !.st = "call", !.retries = t.retries + 1,
                      !.calls = t.calls + (IF client THEN 1 ELSE 0),
                      !.err = NoErr, !.delay = 0]
  IN IF client THEN t1 ELSE TaskRespond(t1, ErrNoClient)

\* ------------------------------------------------------------------------
\* Response cache
\* ------------------------------------------------------------------------
\* the freshness test of getResponseCache (second definition; the first is
\* a variant that serves an entry of age one hour)
ResponseFresh_Inclusive(entry, t) == t - entry.timestamp <= ResponseTTL
ResponseFresh(entry, t) == t - entry.timestamp < ResponseTTL

\* getResponseCache: TRUE when the key has an entry that is still fresh
ResponseCacheHit(cache, key, t) ==
  MapHas(cache, key) /\ ResponseFresh(MapGet(cache, key), t)

\* the key removed when the cache has grown past its maximum:
\* this.responseCache.keys().next().value, the first key in insertion order
EvictedKey(cache) == cache[1].key

\* setResponseCache
setResponseCache(cache, key, data, t) ==
  LET c1 == MapSet(cache, key, [data |-> data, timestamp |-> t])
  IN IF Len(c1) > ResponseCacheMax THEN MapDelete(c1, EvictedKey(c1)) ELSE c1

\* the cache key of generateResponse
CacheKey(query, docs) ==
  query \o <<UnderscoreChar>>
        \o JoinWith([i \in 1..Len(docs) |-> docs[i].metadata.hash], <<UnderscoreChar>>)

\* ------------------------------------------------------------------------
\* Retrieval helpers
\* ------------------------------------------------------------------------
\* query.trim().length === 0 (or an empty query)
BlankQuery(query) == Len(Trim(query)) = 0

\* results.hits.map(...): a missing (zero) score becomes 0.5
HitDoc(hit) ==
  [text |-> hit.document.text,
   score |-> IF hit.score = 0 THEN 50 ELSE hit.score,
   metadata |-> [pageNumber |-> hit.document.pageNumber,
                 source |-> hit.document.source,
                 chunkIndex |-> hit.document.chunkIndex,
                 totalTokens |-> hit.document.totalTokens,
                 importance |-> hit.document.importance,
                 hash |-> hit.document.hash]]

RECURSIVE DigitsValue(_, _, _)
\* the value, in the radix 10 or 16, of the leading digits of s after acc;
\* -1 marks "no digit"
DigitsValue(s, acc, radix) ==
  LET c == Head(s)
      d == IF IsDigit(c) THEN c - 48
           ELSE IF radix = 16 /\ c >= 97 /\ c <= 102 THEN c - 87
           ELSE IF radix = 16 /\ c >= 65 /\ c <= 70 THEN c - 55
           ELSE -1
  IN IF s # <<>> /\ d >= 0
     THEN DigitsValue(Tail(s), (IF acc < 0 THEN 0 ELSE acc * radix) + d, radix)
     ELSE acc

\* parseInt of a trimmed token, without a radix: [nan, value]. A sign is
\* read first; "0x" or "0X" after it makes the rest hexadecimal
ParseInt(tok) ==
  LET neg == tok # <<>> /\ Head(tok) = 45
      body == IF tok # <<>> /\ Head(tok) \in {43, 45} THEN Tail(tok) ELSE tok
      hex == Len(body) >= 2 /\ body[1] = 48 /\ body[2] \in {120, 88}
      v == IF hex THEN DigitsValue(SubSeq(body, 3, Len(body)), -1, 16)
           ELSE DigitsValue(body, -1, 10)
  IN IF v < 0 THEN [nan |-> TRUE, value |-> 0]
     ELSE [nan |-> FALSE, value |-> IF neg THEN -v ELSE v]

\* the ranking parsed from the reranker's reply
ParseRanking(content, n) ==
  LET toks == SplitOn(Trim(content), 44, <<>>)
      nums == [i \in 1..Len(toks) |-> ParseInt(Trim(toks[i]))]
      keep == SelectSeq(nums, LAMBDA p : ~p.nan /\ p.value - 1 >= 0 /\ p.value - 1 < n)
  IN [i \in 1..Len(keep) |-> keep[i].value]

\* rerankDocuments once the reply is there (content) or the call has thrown
RerankResult(documents, failed, content) ==
  IF failed THEN documents
  ELSE LET ranking == ParseRanking(content, Len(documents))
       IN IF Len(ranking) = 0 THEN documents
          ELSE [i \in 1..Len(ranking) |-> documents[ranking[i]]]

\* Array.prototype.slice(0, n) (second definition; the first is a variant
\* that cuts nothing)
Take_All(s, n) == s
Take(s, n) == SubSeq(s, 1, Min2(n, Len(s)))

Weight(doc) == doc.score * doc.metadata.importance

RECURSIVE InsertByWeight(_, _)
\* doc goes after every element that does not weigh less (stable order)
InsertByWeight(sorted, doc) ==
  IF sorted = <<>> THEN <<doc>>
  ELSE IF Weight(Head(sorted)) >= Weight(doc)
       THEN <<Head(sorted)>> \o InsertByWeight(Tail(sorted), doc)
       ELSE <<doc>> \o sorted

RECURSIVE SortByWeight(_)
\* documents.sort by score * importance, descending
SortByWeight(docs) ==
  IF docs = <<>> THEN <<>>
  ELSE InsertByWeight(SortByWeight(SubSeq(docs, 1, Len(docs) - 1)), docs[Len(docs)])

RECURSIVE TakeFitting_Skip(_, _, _)
TakeFitting_Skip(sorted, currentTokens, maxTokens) ==
  IF sorted = <<>> THEN <<>>
  ELSE LET docTokens == Head(sorted).metadata.totalTokens
       IN IF currentTokens + docTokens > maxTokens
          THEN TakeFitting_Skip(Tail(sorted), currentTokens, maxTokens)
          ELSE <<Head(sorted)>>
                 \o TakeFitting_Skip(Tail(sorted), currentTokens + docTokens, maxTokens)

RECURSIVE TakeFitting(_, _, _)
\* the loop of buildOptimizedContext: the documents that are added to the
\* context, up to the first that does not fit
TakeFitting(sorted, currentTokens, maxTokens) ==
  IF sorted = <<>> THEN <<>>
  ELSE LET docTokens == Head(sorted).metadata.totalTokens
       IN IF currentTokens + docTokens > maxTokens
          THEN <<>>
          ELSE <<Head(sorted)>>
                 \o TakeFitting(Tail(sorted), currentTokens + docTokens, maxTokens)

\* buildOptimizedContext: the documents whose text is in the context, in the
\* order of the context
buildOptimizedContext(documents, maxTokens) ==
  TakeFitting(SortByWeight(documents), 0, maxTokens)

\* the condition on which generateResponse gives the no-information answer
\* (second definition; the first is a variant that never gives it)
NoRelevantDocs_Never(docs) == Len(docs) < 0
NoRelevantDocs(docs) == Len(docs) = 0

\* ------------------------------------------------------------------------
\* State
\* ------------------------------------------------------------------------
VARIABLES
  openai,          \* the client handle is set
  db,              \* the index: [null, docs], docs in insertion order
  initialized,     \* the initialized flag
  pdfWorker,       \* the worker handle is set
  embeddingCache,  \* Map hash -> vector
  responseCache,   \* Map cache key -> [data, timestamp]
  now,             \* Date.now()
  ing,             \* the processPDF call in progress
  tasks,           \* the embeds of the batch in progress, one per chunk
  orphans,         \* embeds that are still running after their batch failed
  qry,             \* the generateResponse call in progress and its consumer
  par,             \* the processParallel call in progress
  since,           \* texts embedded with success since the cache was reset
  ever,            \* texts embedded with success at any time
  streamed,        \* cache keys of the streamed answers read to their end
  mru,             \* key of the response cache entry used last
  failures,        \* embedding calls that have failed
  lim,             \* the numbers of calls, clock advances and failures of the run
  ticks,
  nIngests,
  nQueries,
  nAdmin,          \* initialize, exportIndex, importIndex and cleanup calls so far
  xfer,            \* the last exportIndex and the last importIndex call
  split,           \* a splitText call of a splitter of its own
  ovl,             \* two processPDF calls on the worker path that overlap
  booting          \* initialize() calls of the application that wait for models.list()

vars ==
  <<openai, db, initialized, pdfWorker, embeddingCache, responseCache, now,
    ing, tasks, orphans, qry, par, since, ever, streamed, mru, failures, lim, ticks,
    nIngests, nQueries, nAdmin, xfer, split, ovl, booting>>


NoKey == <<>>

NoResult == [kind |-> "none", sources |-> <<>>, cached |-> FALSE]

\* the error a call has thrown: the cause and the messages wrapped around
\* it, outermost first
NoError == [wrap |-> <<>>, cause |-> NoErr]
ErrNotInitialized == [status |-> 0, code |-> "Sistema nao inicializado"]
ErrSearch == [status |-> 0, code |-> "SearchError"]

\* search: what the vector search and the text search of the call did
\* ("none" not called, "ok", "threw"); searches counts them.
\* candidates: the documents handed to the reranker; rerank: what its call
\* did ("none", "failed", "replied") and reply its content.
\* retrieved: what searchSemantic returned.
IdleQuery ==
  [pc |-> "idle", query |-> <<>>, stream |-> FALSE, task |-> NoTask,
   docs |-> <<>>, key |-> NoKey, result |-> NoResult,
   rerankCalls |-> 0, answerCalls |-> 0,
   wrote |-> FALSE, zero |-> FALSE, stale |-> FALSE, hitAge |-> -1,
   permFresh |-> FALSE, streamedFresh |-> FALSE,
   search |-> [vector |-> "none", text |-> "none"], searches |-> 0,
   candidates |-> <<>>, rerank |-> "none", reply |-> <<>>,
   retrieved |-> <<>>, error |-> NoError,
   maxContextTokens |-> maxContextTokens, built |-> FALSE, context |-> <<>>]

\* base: the number of entries of the index when processPDF was called;
\* threw: calculateImportance has thrown on a chunk of the document;
\* embedFailed: an embed of the batch at offset i has failed for good;
\* progress: the calls of onProgress, in order
IdleIngest ==
  [pc |-> "idle", file |-> [name |-> <<>>, pages |-> <<>>], path |-> "none",
   pagesDone |-> 0, chunks |-> <<>>, i |-> 0, result |-> "none",
   ownWorker |-> FALSE, workerAlive |-> FALSE, base |-> 0, threw |-> FALSE,
   embedFailed |-> FALSE, progress |-> <<>>, wait |-> "none"]

\* the static fields of OpenAIParallelService and its processParallel calls.
\* openai: the client is set; requestsInFlight: the counter of that name;
\* calls: the processParallel calls so far, each with its p-limit
\* concurrency (limit), its requests and pc: "running", "done" (Promise.all
\* has resolved) or "rejected" (initialize has thrown)
IdlePar ==
  [openai |-> FALSE, requestsInFlight |-> 0, calls |-> <<>>]

\* exported: exportIndex has returned a file, blob, taken from the index
\* documents source.  imports counts the importIndex calls; data is the
\* file of the last one and accepted tells whether it returned.
NoBlob == [version |-> <<>>, dimensions |-> 0, index |-> <<>>,
           hasCache |-> FALSE, embeddingCache |-> <<>>]
NoTransfer ==
  [exported |-> FALSE, blob |-> NoBlob, source |-> <<>>,
   imports |-> 0, data |-> NoBlob, accepted |-> FALSE]

\* pc: "input" the text is there, "done" splitText has returned chunks
NoSplit == [pc |-> "none", text |-> <<>>, size |-> 0, overlap |-> 0,
            chunks |-> <<>>]

\* a processPDF call on the worker path and the job the worker runs for it.
\* pc: "none" not called, "listening" its handler is registered,
\*     "embedding" in generateAndStoreEmbeddings, "done" the promise is settled;
\* job: "none", "running", "ended" (the worker has posted the terminal message);
\* sent: pages the job has posted; allChunks: the chunks collected by the
\* handler; from: for each of them, the job whose message brought it;
\* endedBy: the job whose terminal message the handler has taken
NoCall ==
  [pc |-> "none", job |-> "none", file |-> [name |-> <<>>, pages |-> <<>>],
   sent |-> 0, allChunks |-> <<>>, from |-> <<>>, stored |-> 0,
   result |-> "none", endedBy |-> 0, progress |-> <<>>]

CallIds == {1, 2}

NoCalls == [c \in CallIds |-> NoCall]

InitService ==
  /\ openai = FALSE
  /\ db = [null |-> TRUE, docs |-> <<>>]
  /\ initialized = FALSE
  /\ pdfWorker = FALSE
  /\ embeddingCache = <<>>
  /\ responseCache = <<>>

InitIdle ==
  /\ now = 0
  /\ ing = IdleIngest
  /\ tasks = <<>>
  /\ orphans = <<>>
  /\ qry = IdleQuery
  /\ par = IdlePar
  /\ since = {}
  /\ ever = {}
  /\ streamed = {}
  /\ mru = NoKey
  /\ failures = 0
  /\ ticks = 0
  /\ nIngests = 0
  /\ nQueries = 0
  /\ nAdmin = 0
  /\ xfer = NoTransfer

InitRest == InitIdle /\ split = NoSplit /\ ovl = NoCalls /\ booting = 0

SysLimits ==
  [ingests |-> SysIngests, queries |-> SysQueries, ticks |-> 0,
   failures |-> SysFailures, admin |-> SysAdmin]

\* the state after construction
Init == InitService /\ InitRest /\ lim = SysLimits

\* ------------------------------------------------------------------------
\* initialize, cleanup, the clock
\* ------------------------------------------------------------------------
\* what initialize() meets after its wait for models.list(): the call fails,
\* or it succeeds and new Worker() gives a worker or throws
InitOutcomes == {"apierror", "worker", "noworker"}

\* the fields after initialize() has run from models.list() to its end with
\* outcome o: the index is created anew and the worker handle is replaced
InitializedService(o) ==
  [openai |-> openai,
   db |-> IF o = "apierror" THEN db ELSE [null |-> FALSE, docs |-> <<>>],
   pdfWorker |-> IF o = "worker" THEN TRUE
                 ELSE IF o = "noworker" THEN FALSE ELSE pdfWorker,
   initialized |-> o # "apierror"]

SetService(f) ==
  /\ openai' = f.openai
  /\ db' = f.db
  /\ pdfWorker' = f.pdfWorker
  /\ initialized' = f.initialized

\* a call of initialize, importIndex or cleanup by the application
CountAdmin ==
  /\ nAdmin < lim.admin
  /\ nAdmin' = nAdmin + 1

\* initialize() up to its first await. Without an API key (key is FALSE) it
\* throws at once and its catch clears the flag; with a key the client is
\* created and the call waits for models.list()
Initialize(key) ==
  /\ CountAdmin
  /\ IF key
     THEN /\ openai' = TRUE
          /\ booting' = booting + 1
          /\ UNCHANGED initialized
     ELSE /\ initialized' = FALSE
          /\ UNCHANGED <<openai, booting>>
  /\ UNCHANGED <<lim, ovl, xfer, split, db, pdfWorker, ing, embeddingCache,
                 responseCache, now, tasks, orphans, qry, par, since, ever,
                 streamed, mru, failures, ticks, nIngests, nQueries>>

\* models.list() of a waiting initialize() call comes back: initialize() runs
\* to its end. The worker that the handle pointed to is not terminated
InitializeResume(o) ==
  /\ booting > 0
  /\ booting' = booting - 1
  /\ SetService(InitializedService(o))
  /\ ing' = IF o # "apierror" THEN [ing EXCEPT !.ownWorker = FALSE] ELSE ing
  /\ UNCHANGED <<lim, ovl, xfer, split, nAdmin, embeddingCache, responseCache,
                 now, tasks, orphans, qry, par, since, ever, streamed, mru,
                 failures, ticks, nIngests, nQueries>>

Cleanup ==
  /\ CountAdmin
  /\ pdfWorker' = FALSE
  /\ embeddingCache' = <<>>
  /\ responseCache' = <<>>
  /\ ing' = IF pdfWorker /\ ing.ownWorker
            THEN [ing EXCEPT !.workerAlive = FALSE, !.ownWorker = FALSE]
            ELSE ing
  /\ since' = {}
  /\ streamed' = {}
  /\ mru' = NoKey
  /\ UNCHANGED <<lim, ovl, booting, xfer, split, openai, db, initialized, now, tasks, orphans, qry, par,
                 ever, failures, ticks, nIngests, nQueries>>

Tick(d) ==
  /\ ticks < lim.ticks
  /\ ticks' = ticks + 1
  /\ now' = now + d
  /\ UNCHANGED <<lim, ovl, booting, xfer, split, nAdmin, openai, db, initialized, pdfWorker,
                 embeddingCache, responseCache, ing, tasks, orphans, qry,
                 par, since, ever, streamed, mru, failures, nIngests,
                 nQueries>>

\* ------------------------------------------------------------------------
\* searchSemantic and generateResponse
\* ------------------------------------------------------------------------
Injective(f) == \A a, b \in DOMAIN f : a # b => f[a] # f[b]

\* the orders in which a search can return up to cap of n documents: any
\* order for an index of up to three documents; for a larger index no
\* document, or as many as cap allows in index order or in reverse order
HitOrders(n, cap) ==
  IF n <= 3
  THEN {o \in UNION {[1..k -> 1..n] : k \in 0..Min2(n, cap)} : Injective(o)}
  ELSE {<<>>, [i \in 1..Min2(n, cap) |-> i], [i \in 1..Min2(n, cap) |-> n + 1 - i]}

Descending(sc) == \A a, b \in DOMAIN sc : a < b => sc[a] >= sc[b]

\* the hit lists a search over docs can return, with scores from scores
HitLists(docs, cap, scores) ==
  UNION {{[i \in 1..Len(o) |-> [document |-> docs[o[i]], score |-> sc[i]]] :
            sc \in {x \in [1..Len(o) -> scores] : Descending(x)}} :
         o \in HitOrders(Len(docs), cap)}

\* what the index answers to the searches of one retrieval: the vector
\* search gives hits or throws, and then the text search gives hits or throws
SearchOutcomes(docs) ==
  {[vectorThrows |-> FALSE, textThrows |-> FALSE, hits |-> h] :
      h \in HitLists(docs, topK * 2, VectorScores)}
  \cup {[vectorThrows |-> TRUE, textThrows |-> FALSE, hits |-> h] :
      h \in HitLists(docs, topK, TextScores)}
  \cup {[vectorThrows |-> TRUE, textThrows |-> TRUE, hits |-> <<>>]}

ErrorResult == [kind |-> "error", sources |-> <<>>, cached |-> FALSE]
NoInfoResult == [kind |-> "noinfo", sources |-> <<>>, cached |-> FALSE]

Sources(docs) == [i \in 1..Len(docs) |-> docs[i].metadata]

\* a and b hold the same elements, each as many times
SameBag(a, b) ==
  /\ Len(a) = Len(b)
  /\ \A i \in 1..Len(a) :
       Cardinality({j \in 1..Len(a) : a[j] = a[i]})
         = Cardinality({j \in 1..Len(b) : b[j] = a[i]})

\* key names the query and the sources of docs, in some order
SameSourcesKey(key, query, docs) ==
  LET prefix == query \o <<UnderscoreChar>>
  IN /\ Len(key) >= Len(prefix)
     /\ SubSeq(key, 1, Len(prefix)) = prefix
     /\ SameBag(SplitOn(SubSeq(key, Len(prefix) + 1, Len(key)), UnderscoreChar, <<>>),
                [i \in 1..Len(docs) |-> docs[i].metadata.hash])

\* the catch of generateResponse: the completion call has failed
CompletionFailed(q, cause) ==
  [q EXCEPT !.pc = "done", !.result = ErrorResult,
            !.error = [wrap |-> <<"Falha ao gerar resposta">>, cause |-> cause]]

\* generateResponse from the result of searchSemantic up to the completion
\* call: docs is what searchSemantic returned. With a null client handle
\* this.openai.chat throws and the call ends in the same turn
AfterRetrieval(q, docs) ==
  IF NoRelevantDocs(docs)
  THEN [q EXCEPT !.pc = "done", !.docs = docs, !.retrieved = docs,
                 !.result = NoInfoResult]
  ELSE LET key == CacheKey(q.query, docs)
           q1 == [q EXCEPT
                    !.docs = docs, !.retrieved = docs, !.key = key,
                    !.stale = MapHas(responseCache, key)
                              /\ now - MapGet(responseCache, key).timestamp >= ResponseTTL,
                    !.permFresh = \E i \in 1..Len(responseCache) :
                                     /\ SameSourcesKey(responseCache[i].key, q.query, docs)
                                     /\ now - responseCache[i].value.timestamp < ResponseTTL,
                    !.streamedFresh = \E s \in streamed :
                                     s.key = key /\ now - s.at < ResponseTTL]
       IN IF ResponseCacheHit(responseCache, key, now)
          THEN [q1 EXCEPT !.pc = "done",
                          !.hitAge = now - MapGet(responseCache, key).timestamp,
                          !.result = [MapGet(responseCache, key).data
                                        EXCEPT !.cached = TRUE]]
          ELSE LET q2 == [q1 EXCEPT
                            !.docs = SortByWeight(docs), !.built = TRUE,
                            !.context = buildOptimizedContext(docs, q.maxContextTokens)]
               IN IF openai
                  THEN [q2 EXCEPT !.pc = "complete",
                                  !.answerCalls = q.answerCalls + 1]
                  ELSE CompletionFailed(q2, ErrNoClient)

\* the index search of a retrieval throws: the text search that follows a
\* failed vector search has failed too (second definition; the first is a
\* variant without the text search)
SearchFails_NoFallback(so) == so.vectorThrows
SearchFails(so) == so.vectorThrows /\ so.textThrows

\* rerankDocuments has returned (failed: its chat call has thrown and the
\* catch returns the documents): searchSemantic returns and generateResponse
\* goes on to the response cache
AfterRerank(q, failed, content) ==
  AfterRetrieval([q EXCEPT !.rerank = IF failed THEN "failed" ELSE "replied",
                           !.reply = IF failed THEN <<>> ELSE content],
                 Take(RerankResult(q.docs, failed, content), topK))

\* searchSemantic from the index search on, for a query whose embedding is
\* there: it throws, returns no document, or calls the reranker. With a
\* null client handle the reranker throws at once and its catch goes on
AfterEmbedding(q, so) ==
  LET q0 == [q EXCEPT
               !.search = [vector |-> IF so.vectorThrows THEN "threw" ELSE "ok",
                           text |-> IF ~so.vectorThrows THEN "none"
                                    ELSE IF so.textThrows THEN "threw" ELSE "ok"],
               !.searches = IF so.vectorThrows THEN 2 ELSE 1]
  IN IF SearchFails(so)
     THEN [q0 EXCEPT !.pc = "done", !.result = ErrorResult,
                     !.error = [wrap |-> <<"Erro na busca">>, cause |-> ErrSearch]]
     ELSE IF Len(so.hits) = 0
          THEN AfterRetrieval([q0 EXCEPT !.zero = TRUE], <<>>)
          ELSE LET docs == [i \in 1..Len(so.hits) |-> HitDoc(so.hits[i])]
                   q1 == [q0 EXCEPT !.docs = docs, !.candidates = docs]
               IN IF openai
                  THEN [q1 EXCEPT !.pc = "rerank",
                                  !.rerankCalls = q.rerankCalls + 1]
                  ELSE AfterRerank(q1, TRUE, <<>>)

\* what the embedding endpoint answers to a request
EmbedOutcomes == {Ok} \cup EmbedErrors

\* the catch of searchSemantic around the embed of the query
EmbedFailed(q, cause) ==
  [q EXCEPT !.pc = "done", !.result = ErrorResult,
            !.error = [wrap |-> <<"Erro na busca", "Erro ao gerar embedding">>,
                       cause |-> cause]]

QueryIdle == qry.pc \in {"idle", "done"}

\* the first test of searchSemantic (second definition; the first is a
\* variant without the test)
NotReady_Ignored(isInitialized, index) == FALSE
NotReady(isInitialized, index) == ~isInitialized \/ index.null

\* generateResponse(query, {streamResponse: stream, maxContextTokens: budget})
generateResponseWith(query, stream, budget) ==
  /\ QueryIdle
  /\ nQueries < lim.queries
  /\ nQueries' = nQueries + 1
  /\ LET q0 == [IdleQuery EXCEPT !.query = query, !.stream = stream,
                                 !.maxContextTokens = budget]
     IN IF NotReady(initialized, db)
        THEN qry' = [q0 EXCEPT !.pc = "done", !.result = ErrorResult,
                               !.error = [wrap |-> <<"Erro na busca">>,
                                          cause |-> ErrNotInitialized]]
        ELSE IF BlankQuery(query)
        THEN qry' = AfterRetrieval([q0 EXCEPT !.zero = TRUE], <<>>)
        ELSE LET t == TaskBegin(embeddingCache, query, openai, since, ever)
             IN IF t.st = "done"
                THEN \E so \in SearchOutcomes(db.docs) :
                       qry' = AfterEmbedding([q0 EXCEPT !.task = t], so)
                ELSE qry' = [q0 EXCEPT !.pc = "embed", !.task = t]
  /\ mru' = IF qry'.hitAge >= 0 THEN qry'.key ELSE mru
  /\ UNCHANGED <<lim, ovl, booting, xfer, split, nAdmin, openai, db, initialized, pdfWorker,
                 embeddingCache, responseCache, now, ing, tasks, orphans,
                 par, since, ever, streamed, failures, ticks, nIngests>>

\* generateResponse(query, {streamResponse: stream})
generateResponse(query, stream) ==
  generateResponseWith(query, stream, maxContextTokens)

\* a failure of the embedding endpoint uses up one of the failures of the run
CountFailure(out) ==
  /\ out \in EmbedErrors => failures < lim.failures
  /\ failures' = IF out \in EmbedErrors THEN failures + 1 ELSE failures

\* the embedding request of the query comes back
QueryEmbedRespond(out) ==
  /\ qry.pc = "embed"
  /\ qry.task.st = "call"
  /\ CountFailure(out)
  /\ LET t == TaskRespond(qry.task, out)
         q1 == [qry EXCEPT !.task = t]
     IN /\ IF t.st = "done"
           THEN /\ embeddingCache' = MapSet(embeddingCache, generateHash(t.text), t.emb)
                /\ since' = since \cup {t.text}
                /\ ever' = ever \cup {t.text}
                /\ \E so \in SearchOutcomes(db.docs) : qry' = AfterEmbedding(q1, so)
           ELSE /\ UNCHANGED <<embeddingCache, since, ever>>
                /\ qry' = IF t.st = "failed" THEN EmbedFailed(q1, out) ELSE q1
  /\ mru' = IF qry'.hitAge >= 0 THEN qry'.key ELSE mru
  /\ UNCHANGED <<lim, ovl, booting, xfer, split, nAdmin, openai, db, initialized, pdfWorker,
                 responseCache, now, ing, tasks, orphans, par, streamed,
                 ticks, nIngests, nQueries>>

\* the retry timer of the query's embed fires
QueryEmbedFire ==
  /\ qry.pc = "embed"
  /\ qry.task.st = "wait"
  /\ LET t == TaskFire(qry.task, openai)
         q1 == [qry EXCEPT !.task = t]
     IN qry' = IF t.st = "failed" THEN EmbedFailed(q1, t.err) ELSE q1
  /\ UNCHANGED <<lim, ovl, booting, xfer, split, nAdmin, openai, db, initialized, pdfWorker,
                 embeddingCache, responseCache, now, ing, tasks, orphans,
                 par, since, ever, streamed, mru, failures, ticks, nIngests,
                 nQueries>>

\* replies of the reranker: "2,1" and "x"
Replies == {<<50, 44, 49>>, <<120>>}
\* and replies of which a part only is a decimal ranking: "2,x", "2,12" and
\* "0x2,1" (parseInt reads "0x2" as the hexadecimal 2)
MixedReplies == {<<50, 44, 120>>, <<50, 44, 49, 50>>, <<48, 120, 50, 44, 49>>}

\* the reranker's call comes back: searchSemantic returns and
\* generateResponse goes on to the response cache
RerankRespond(failed, content) ==
  /\ qry.pc = "rerank"
  /\ qry' = AfterRerank(qry, failed, content)
  /\ mru' = IF qry'.hitAge >= 0 THEN qry'.key ELSE mru
  /\ UNCHANGED <<lim, ovl, booting, xfer, split, nAdmin, openai, db, initialized, pdfWorker,
                 embeddingCache, responseCache, now, ing, tasks, orphans,
                 par, since, ever, streamed, failures, ticks, nIngests,
                 nQueries>>

AnswerResult(docs) == [kind |-> "answer", sources |-> Sources(docs), cached |-> FALSE]
StreamResult(docs) == [kind |-> "stream", sources |-> Sources(docs), cached |-> FALSE]

\* the completion call comes back
CompletionRespond(ok) ==
  /\ qry.pc = "complete"
  /\ IF ~ok
     THEN /\ qry' = CompletionFailed(qry, ErrServer)
          /\ UNCHANGED <<responseCache, mru>>
     ELSE IF qry.stream
     THEN /\ qry' = [qry EXCEPT !.pc = "streaming", !.result = StreamResult(qry.docs)]
          /\ UNCHANGED <<responseCache, mru>>
     ELSE /\ qry' = [qry EXCEPT !.pc = "done", !.wrote = TRUE,
                                !.result = AnswerResult(qry.docs)]
          /\ responseCache' = setResponseCache(responseCache, qry.key,
                                               AnswerResult(qry.docs), now)
          /\ mru' = qry.key
  /\ UNCHANGED <<lim, ovl, booting, xfer, split, nAdmin, openai, db, initialized, pdfWorker,
                 embeddingCache, now, ing, tasks, orphans, par, since, ever,
                 streamed, failures, ticks, nIngests, nQueries>>

\* handleQuery has read the stream to its end
StreamEnd ==
  /\ qry.pc = "streaming"
  /\ qry' = [qry EXCEPT !.pc = "done"]
  /\ streamed' = streamed \cup {[key |-> qry.key, at |-> now]}
  /\ UNCHANGED <<lim, ovl, booting, xfer, split, nAdmin, openai, db, initialized, pdfWorker,
                 embeddingCache, responseCache, now, ing, tasks, orphans,
                 par, since, ever, mru, failures, ticks, nIngests, nQueries>>

\* ------------------------------------------------------------------------
\* processPDF
\* ------------------------------------------------------------------------
MainPagesPerBatch == 3
WorkerTotalPages == 100

\* the chunks of a page that splitText cuts are objects, not strings:
\* calculateImportance(chunk, ...) throws on the first of them (text.match
\* is not a function)
PageThrows(text) == SplitsFormatted(text, chunkSize)

BatchThrows(file, first, last) ==
  \E p \in first..last : PageThrows(file.pages[p])

\* the chunk records of the pages first..last of a file, up to the first
\* page that throws
RECURSIVE ChunksOfPages(_, _, _, _)
ChunksOfPages(file, first, last, path) ==
  IF first > last THEN <<>>
  ELSE IF PageThrows(file.pages[first]) THEN <<>>
  ELSE LET text == file.pages[first]
           here == IF path = "worker"
                   THEN PageChunks(file.name, first, text, WorkerTotalPages)
                   ELSE IF Trim(text) = <<>> THEN <<>>
                   ELSE PageChunks(file.name, first, Trim(text), Len(file.pages))
       IN here \o ChunksOfPages(file, first + 1, last, path)

BatchTasks_All(chunks, i) ==
  [k \in 1..(Len(chunks) - i) |->
     TaskBegin(embeddingCache, chunks[i + k].text, openai, since, ever)]

\* the embeds that generateAndStoreEmbeddings starts for the batch at offset i
BatchTasks(chunks, i) ==
  LET last == Min2(i + batchSize, Len(chunks))
  IN [k \in 1..(last - i) |->
        TaskBegin(embeddingCache, chunks[i + k].text, openai, since, ever)]

InsertAll_Front(docs, entries) ==
  IF \E e \in 1..Len(entries) : \E d \in 1..Len(docs) : docs[d].id = entries[e].id
  THEN [docs |-> docs, ok |-> FALSE]
  ELSE [docs |-> [i \in 1..Len(entries) |-> entries[Len(entries) + 1 - i]] \o docs,
        ok |-> TRUE]

\* insert of the index: an id that is already there is refused
RECURSIVE InsertAll(_, _)
InsertAll(docs, entries) ==
  IF entries = <<>> THEN [docs |-> docs, ok |-> TRUE]
  ELSE IF \E d \in 1..Len(docs) : docs[d].id = Head(entries).id
       THEN [docs |-> docs, ok |-> FALSE]
       ELSE InsertAll(Append(docs, Head(entries)), Tail(entries))

Unfinished(ts) == SelectSeq(ts, LAMBDA t : t.st \in {"call", "wait"})

\* processPDF up to its first await. On a service whose flag is set the path
\* is chosen by the worker handle and file.arrayBuffer() is awaited; else
\* initialize() is called and awaited (it throws at once without an API key)
processPDF(f, key) ==
  /\ ing.pc = "idle"
  /\ nIngests < lim.ingests
  /\ nIngests' = nIngests + 1
  /\ IF initialized
     THEN /\ ing' = [IdleIngest EXCEPT
                       !.pc = "buffer", !.file = f, !.base = Len(db.docs),
                       !.path = IF pdfWorker THEN "worker" ELSE "main"]
          /\ UNCHANGED <<openai, initialized>>
     ELSE IF key
     THEN /\ ing' = [IdleIngest EXCEPT !.pc = "init", !.file = f]
          /\ openai' = TRUE
          /\ UNCHANGED initialized
     ELSE /\ ing' = [IdleIngest EXCEPT !.file = f, !.result = "error"]
          /\ initialized' = FALSE
          /\ UNCHANGED openai
  /\ UNCHANGED <<lim, ovl, booting, xfer, split, nAdmin, db, pdfWorker,
                 embeddingCache, responseCache, now, tasks, orphans, qry, par,
                 since, ever, streamed, mru, failures, ticks, nQueries>>

\* models.list() of the initialize() that processPDF awaits comes back:
\* initialize() runs to its end and processPDF fails with it, or chooses its
\* path by the worker handle and awaits file.arrayBuffer()
ProcessPDFResume(o) ==
  /\ ing.pc = "init"
  /\ SetService(InitializedService(o))
  /\ ing' = IF o = "apierror"
            THEN [ing EXCEPT !.pc = "idle", !.result = "error"]
            ELSE [ing EXCEPT !.pc = "buffer", !.base = 0,
                             !.path = IF o = "worker" THEN "worker" ELSE "main"]
  /\ UNCHANGED <<lim, ovl, booting, xfer, split, nAdmin, embeddingCache,
                 responseCache, now, tasks, orphans, qry, par, since, ever,
                 streamed, mru, failures, ticks, nIngests, nQueries>>

\* file.arrayBuffer() has resolved. On the worker path the handler is
\* registered with the worker of the service and the file is posted to it;
\* this.pdfWorker.addEventListener throws when the handle is null by now,
\* and the promise is rejected. On the main path import('pdfjs-dist') is
\* awaited
ArrayBufferReady ==
  /\ ing.pc = "buffer"
  /\ ing' = IF ing.path = "worker" /\ ~pdfWorker
            THEN [ing EXCEPT !.pc = "idle", !.result = "error"]
            ELSE [ing EXCEPT !.pc = "extract",
                             !.ownWorker = (ing.path = "worker"),
                             !.workerAlive = (ing.path = "worker"),
                             !.wait = IF ing.path = "main" THEN "import"
                                      ELSE "none"]
  /\ UNCHANGED <<lim, ovl, booting, xfer, split, nAdmin, openai, db,
                 initialized, pdfWorker, embeddingCache, responseCache, now,
                 tasks, orphans, qry, par, since, ever, streamed, mru,
                 failures, ticks, nIngests, nQueries>>

Extracting ==
  /\ ing.pc = "extract"
  /\ ing.path = "worker" => ing.workerAlive

\* onProgress({phase: 'extraction', current, total,
\*             percentage: (current / total) * 40})
ExtractionProgress(current, total) ==
  [phase |-> "extraction", current |-> current, total |-> total]

\* onProgress({phase: 'embedding', current, total,
\*             percentage: 40 + (current / total) * 60})
EmbeddingProgress(current, total) ==
  [phase |-> "embedding", current |-> current, total |-> total]

\* the percentage of a call of onProgress, times its total
PercentageTimesTotal(p) ==
  IF p.phase = "extraction" THEN 40 * p.current
  ELSE (40 * p.total) + (60 * p.current)

\* the worker posts batch-complete: the pages of one batch are chunked by
\* the handler, in one turn. A page that throws ends the handler (the pages
\* of the batch that follow it are not chunked, the next batches are)
ExtractBatch ==
  /\ Extracting
  /\ ing.path = "worker"
  /\ ing.pagesDone < Len(ing.file.pages)
  /\ LET last == Min2(ing.pagesDone + WorkerPagesPerBatch, Len(ing.file.pages))
         throws == BatchThrows(ing.file, ing.pagesDone + 1, last)
     IN ing' = [ing EXCEPT
                  !.pagesDone = last,
                  !.threw = ing.threw \/ throws,
                  !.progress =
                    IF throws THEN ing.progress
                    ELSE Append(ing.progress,
                                ExtractionProgress(last, Len(ing.file.pages))),
                  !.chunks = ing.chunks
                               \o ChunksOfPages(ing.file, ing.pagesDone + 1,
                                                last, ing.path)]
  /\ UNCHANGED <<lim, ovl, booting, xfer, split, nAdmin, openai, db, initialized, pdfWorker,
                 embeddingCache, responseCache, now, tasks, orphans, qry,
                 par, since, ever, streamed, mru, failures, ticks, nIngests,
                 nQueries>>

\* the main path awaits pdf.js for every page. ing.wait is the promise that
\* processPDFMainThread waits for: "import" (import('pdfjs-dist')),
\* "document" (getDocument().promise), "page" (pdf.getPage), "text"
\* (page.getTextContent) or "timer" (setTimeout 0 at the end of a batch)
MainWaits(w) == Extracting /\ ing.path = "main" /\ ing.wait = w

MainFrame ==
  UNCHANGED <<lim, ovl, booting, xfer, split, nAdmin, openai, db, initialized,
              pdfWorker, embeddingCache, responseCache, now, tasks, orphans,
              qry, par, since, ever, streamed, mru, failures, ticks, nIngests,
              nQueries>>

\* import('pdfjs-dist') has resolved: getDocument is called
ImportPdfjs ==
  /\ MainWaits("import")
  /\ ing' = [ing EXCEPT !.wait = "document"]
  /\ MainFrame

\* the document is loaded, or the timer of the last batch has fired and
\* pages are left: pdf.getPage is called for the next page
GetPage ==
  /\ MainWaits("document") \/ MainWaits("timer")
  /\ ing.pagesDone < Len(ing.file.pages)
  /\ ing' = [ing EXCEPT !.wait = "page"]
  /\ MainFrame

\* pdf.getPage has resolved: page.getTextContent is called
GetTextContent ==
  /\ MainWaits("page")
  /\ ing' = [ing EXCEPT !.wait = "text"]
  /\ MainFrame

\* page.getTextContent has resolved: the page is chunked into allChunks. A
\* page that throws is caught and processPDF fails. After the last page of
\* a batch onProgress is called and the timer is set; else pdf.getPage is
\* called for the next page
ExtractPage ==
  /\ MainWaits("text")
  /\ LET pageNum == ing.pagesDone + 1
         endPage == Min2(((ing.pagesDone \div MainPagesPerBatch) + 1)
                           * MainPagesPerBatch,
                         Len(ing.file.pages))
     IN ing' = IF BatchThrows(ing.file, pageNum, pageNum)
               THEN [ing EXCEPT !.pc = "idle", !.result = "error",
                                !.threw = TRUE, !.wait = "none"]
               ELSE [ing EXCEPT
                       !.pagesDone = pageNum,
                       !.chunks = ing.chunks
                                    \o ChunksOfPages(ing.file, pageNum, pageNum,
                                                     ing.path),
                       !.progress =
                         IF pageNum = endPage
                         THEN Append(ing.progress,
                                     ExtractionProgress(endPage,
                                                        Len(ing.file.pages)))
                         ELSE ing.progress,
                       !.wait = IF pageNum = endPage THEN "timer" ELSE "page"]
  /\ MainFrame

\* the extraction fails: file.arrayBuffer() rejects, pdf.js throws on the
\* main path, or the worker posts an error. The error branch of the handler
\* calls this.pdfWorker.removeEventListener before reject: when the handle is
\* null by then it throws inside the async handler, reject is not reached
\* and the promise of processPDF stays pending
ExtractFail ==
  /\ Extracting \/ ing.pc = "buffer"
  /\ ing' = IF ing.pc = "extract" /\ ing.path = "worker" /\ ~pdfWorker
            THEN [ing EXCEPT !.pc = "hung"]
            ELSE [ing EXCEPT !.pc = "idle", !.result = "error", !.wait = "none"]
  /\ UNCHANGED <<lim, ovl, booting, xfer, split, nAdmin, openai, db, initialized, pdfWorker,
                 embeddingCache, responseCache, now, tasks, orphans, qry,
                 par, since, ever, streamed, mru, failures, ticks, nIngests,
                 nQueries>>

\* generateAndStoreEmbeddings begins the batch at offset i
BeginBatch(i) ==
  /\ ing' = [ing EXCEPT !.pc = "embed", !.i = i, !.wait = "none"]
  /\ tasks' = BatchTasks(ing.chunks, i)

\* every page is extracted (the worker posts processing-complete; on the
\* main path the timer of the last batch has fired): the embedding phase
\* begins
ProcessingComplete ==
  /\ Extracting
  /\ ing.pagesDone = Len(ing.file.pages)
  /\ ing.path = "main" => ing.wait = "timer"
  /\ IF ing.path = "worker" /\ ~pdfWorker
     THEN /\ ing' = [ing EXCEPT !.pc = "hung"]
          /\ UNCHANGED tasks
     ELSE IF Len(ing.chunks) = 0
     THEN /\ ing' = [ing EXCEPT !.pc = "idle", !.result = "success",
                                !.wait = "none"]
          /\ UNCHANGED tasks
     ELSE BeginBatch(0)
  /\ UNCHANGED <<lim, ovl, booting, xfer, split, nAdmin, openai, db, initialized, pdfWorker,
                 embeddingCache, responseCache, now, orphans, qry, par,
                 since, ever, streamed, mru, failures, ticks, nIngests,
                 nQueries>>

\* the embed of chunk k of the batch has not returned an embedding: when
\* it has given up, Promise.all rejects and processPDF fails, while the
\* other embeds of the batch go on
BatchAfter(ts, k) ==
  IF ts[k].st = "failed"
  THEN /\ ing' = [ing EXCEPT !.pc = "idle", !.result = "error",
                             !.embedFailed = TRUE]
       /\ orphans' = orphans \o Unfinished(ts)
       /\ tasks' = <<>>
  ELSE /\ tasks' = ts
       /\ UNCHANGED <<ing, orphans>>

\* the embedding request of chunk k of the batch comes back
IngestEmbedRespond(k, out) ==
  /\ ing.pc = "embed"
  /\ k \in 1..Len(tasks)
  /\ tasks[k].st = "call"
  /\ CountFailure(out)
  /\ LET t == TaskRespond(tasks[k], out)
         ts == [tasks EXCEPT ![k] = t]
     IN IF t.st = "done"
        THEN /\ embeddingCache' = MapSet(embeddingCache, generateHash(t.text), t.emb)
             /\ since' = since \cup {t.text}
             /\ ever' = ever \cup {t.text}
             /\ tasks' = ts
             /\ UNCHANGED <<ing, orphans>>
        ELSE /\ BatchAfter(ts, k)
             /\ UNCHANGED <<embeddingCache, since, ever>>
  /\ UNCHANGED <<lim, ovl, booting, xfer, split, nAdmin, openai, db, initialized, pdfWorker,
                 responseCache, now, qry, par, streamed, mru, ticks,
                 nIngests, nQueries>>

\* the retry timer of chunk k fires
IngestEmbedFire(k) ==
  /\ ing.pc = "embed"
  /\ k \in 1..Len(tasks)
  /\ tasks[k].st = "wait"
  /\ BatchAfter([tasks EXCEPT ![k] = TaskFire(tasks[k], openai)], k)
  /\ UNCHANGED <<lim, ovl, booting, xfer, split, nAdmin, openai, db, initialized, pdfWorker,
                 embeddingCache, responseCache, now, qry, par,
                 since, ever, streamed, mru, failures, ticks, nIngests,
                 nQueries>>

\* every embed of the batch is there: the batch is inserted in order
BatchStore ==
  /\ ing.pc = "embed"
  /\ \A k \in 1..Len(tasks) : tasks[k].st = "done"
  /\ LET entries == [k \in 1..Len(tasks) |->
                       IndexEntry(ing.file.name, ing.chunks[ing.i + k], tasks[k].emb)]
         r == InsertAll(db.docs, entries)
         reported == Append(ing.progress,
                            EmbeddingProgress(ing.i + Len(tasks), Len(ing.chunks)))
     IN /\ db' = [db EXCEPT !.docs = r.docs]
        /\ ing' = IF ~r.ok
                  THEN [ing EXCEPT !.pc = "idle", !.result = "error"]
                  ELSE IF ing.i + batchSize < Len(ing.chunks)
                  THEN [ing EXCEPT !.pc = "pause", !.progress = reported]
                  ELSE [ing EXCEPT !.pc = "idle", !.result = "success",
                                   !.progress = reported]
  /\ tasks' = <<>>
  /\ UNCHANGED <<lim, ovl, booting, xfer, split, nAdmin, openai, initialized, pdfWorker, embeddingCache,
                 responseCache, now, orphans, qry, par, since, ever,
                 streamed, mru, failures, ticks, nIngests, nQueries>>

\* the pause between two batches is over
BatchNext ==
  /\ ing.pc = "pause"
  /\ BeginBatch(ing.i + batchSize)
  /\ UNCHANGED <<lim, ovl, booting, xfer, split, nAdmin, openai, db, initialized, pdfWorker,
                 embeddingCache, responseCache, now, orphans, qry, par,
                 since, ever, streamed, mru, failures, ticks, nIngests,
                 nQueries>>

Without(s, k) == [j \in 1..(Len(s) - 1) |-> IF j < k THEN s[j] ELSE s[j + 1]]

\* an embed whose batch has failed goes on: its request comes back
OrphanRespond(k, out) ==
  /\ k \in 1..Len(orphans)
  /\ orphans[k].st = "call"
  /\ CountFailure(out)
  /\ LET t == TaskRespond(orphans[k], out)
     IN IF t.st = "done"
        THEN /\ embeddingCache' = MapSet(embeddingCache, generateHash(t.text), t.emb)
             /\ since' = since \cup {t.text}
             /\ ever' = ever \cup {t.text}
             /\ orphans' = Without(orphans, k)
        ELSE /\ orphans' = IF t.st = "failed" THEN Without(orphans, k)
                           ELSE [orphans EXCEPT ![k] = t]
             /\ UNCHANGED <<embeddingCache, since, ever>>
  /\ UNCHANGED <<lim, ovl, booting, xfer, split, nAdmin, openai, db, initialized, pdfWorker,
                 responseCache, now, ing, tasks, qry, par, streamed, mru,
                 ticks, nIngests, nQueries>>

OrphanFire(k) ==
  /\ k \in 1..Len(orphans)
  /\ orphans[k].st = "wait"
  /\ LET t == TaskFire(orphans[k], openai)
     IN orphans' = IF t.st = "failed" THEN Without(orphans, k)
                   ELSE [orphans EXCEPT ![k] = t]
  /\ UNCHANGED <<lim, ovl, booting, xfer, split, nAdmin, openai, db, initialized, pdfWorker,
                 embeddingCache, responseCache, now, ing, tasks, qry, par,
                 since, ever, streamed, mru, failures, ticks, nIngests,
                 nQueries>>

\* ------------------------------------------------------------------------
\* exportIndex and importIndex
\* ------------------------------------------------------------------------
IndexVersion == <<50, 46, 48>>

\* the parsed content of an index file; hasCache is FALSE when the file has
\* no embeddingCache member; dimensions is 0 when it has no
\* metadata.dimensions; embeddingCache is an array of [key, value] pairs
Blob(version, dimensions, docs, hasCache, cache) ==
  [version |-> version, dimensions |-> dimensions, index |-> docs,
   hasCache |-> hasCache, embeddingCache |-> cache]

\* Array.from(map.entries())
MapEntries(m) == [i \in 1..Len(m) |-> <<m[i].key, m[i].value>>]

RECURSIVE SetAll(_, _)
SetAll(m, pairs) ==
  IF pairs = <<>> THEN m
  ELSE SetAll(MapSet(m, Head(pairs)[1], Head(pairs)[2]), Tail(pairs))

\* new Map(pairs)
MapFromEntries(pairs) == SetAll(<<>>, pairs)

\* save(this.db) and load(data.index) are calls into the index library,
\* whose code is not part of the repository. The model gives the index
\* member of a file the documents of the index and lets an accepted import
\* put the documents of the file in the index; no property of the
\* development states what the library keeps of an index across the two
\* calls.
save(index) == index.docs
load(docs) == [null |-> FALSE, docs |-> docs]

\* the file that exportIndex writes
ExportBlob(index, cache) ==
  Blob(IndexVersion, embeddingDimensions, save(index), TRUE,
       Take(MapEntries(cache), ExportCacheLimit))

BlobDocs ==
  LET cs == ChunksOfPages(File_a, 1, Len(File_a.pages), "worker")
  IN [k \in 1..Len(cs) |-> IndexEntry(File_a.name, cs[k], Embedding(cs[k].text))]

\* an export of "a.pdf", an empty index without cache, a file of version
\* "1.0", a file without version, a file of another embedding dimension, a
\* file without metadata.dimensions
ExportOfA ==
  Blob(IndexVersion, embeddingDimensions, BlobDocs, TRUE,
       <<<<generateHash(S_Aa), Embedding(S_Aa)>>>>)

EmptyIndex == Blob(IndexVersion, embeddingDimensions, <<>>, FALSE, <<>>)

Blobs ==
  {ExportOfA,
   EmptyIndex,
   Blob(<<49, 46, 48>>, embeddingDimensions, BlobDocs, FALSE, <<>>),
   Blob(<<>>, embeddingDimensions, BlobDocs, FALSE, <<>>),
   Blob(IndexVersion, 1536, BlobDocs, TRUE, <<>>),
   Blob(IndexVersion, 0, BlobDocs, TRUE, <<>>)}

\* exportIndex: save throws on an index that is null
exportIndex ==
  /\ CountAdmin
  /\ xfer' = IF db.null THEN xfer
             ELSE [xfer EXCEPT !.exported = TRUE,
                               !.blob = ExportBlob(db, embeddingCache),
                               !.source = db.docs]
  /\ UNCHANGED <<lim, ovl, booting, split, openai, db, initialized, pdfWorker,
                 embeddingCache, responseCache, now, ing, tasks, orphans,
                 qry, par, since, ever, streamed, mru, failures, ticks,
                 nIngests, nQueries>>

\* the validations of importIndex (second definition; the first is a
\* variant that tests the version only)
ImportAccepted_VersionOnly(data) ==
  data.version # <<>> /\ data.version = IndexVersion
ImportAccepted(data) ==
  /\ data.version # <<>> /\ data.version = IndexVersion
  /\ data.dimensions = embeddingDimensions

importIndex(data) ==
  /\ CountAdmin
  /\ xfer' = [xfer EXCEPT !.imports = xfer.imports + 1, !.data = data,
                          !.accepted = ImportAccepted(data)]
  /\ IF ImportAccepted(data)
     THEN /\ db' = load(data.index)
          /\ embeddingCache' = IF data.hasCache
                                THEN MapFromEntries(data.embeddingCache)
                                ELSE embeddingCache
          /\ since' = IF data.hasCache
                        THEN {x \in since :
                                MapHas(MapFromEntries(data.embeddingCache),
                                       generateHash(x))}
                        ELSE since
          /\ initialized' = TRUE
     ELSE UNCHANGED <<db, embeddingCache, since, initialized>>
  /\ UNCHANGED <<lim, ovl, booting, split, openai, pdfWorker, responseCache, now, ing,
                 tasks, orphans, qry, par, ever, streamed, mru, failures,
                 ticks, nIngests, nQueries>>

\* ------------------------------------------------------------------------
\* The specification of the RAG service
\* ------------------------------------------------------------------------
MaxSlots == batchSize

QueryStart(queries) ==
  \E q \in queries : \E st \in BOOLEAN : generateResponse(q, st)

QueryStepsWith(replies) ==
  \/ \E failed \in BOOLEAN : \E content \in replies : RerankRespond(failed, content)
  \/ \E ok \in BOOLEAN : CompletionRespond(ok)
  \/ StreamEnd

QuerySteps == QueryStepsWith(Replies)

\* the steps of a question whose embedding is in the cache
QueryCore(queries) == QueryStart(queries) \/ QuerySteps

\* the steps of the embed of a question
EmbedNext ==
  \/ \E out \in EmbedOutcomes : QueryEmbedRespond(out)
  \/ QueryEmbedFire

QueryNext(queries) == QueryCore(queries) \/ EmbedNext

IngestStart(files) ==
  \E f \in files : \E key \in BOOLEAN : processPDF(f, key)

IngestSteps ==
  \/ ArrayBufferReady
  \/ ExtractBatch
  \/ ImportPdfjs
  \/ GetPage
  \/ GetTextContent
  \/ ExtractPage
  \/ ExtractFail
  \/ ProcessingComplete
  \/ \E k \in 1..MaxSlots : \E out \in EmbedOutcomes : IngestEmbedRespond(k, out)
  \/ \E k \in 1..MaxSlots : IngestEmbedFire(k)
  \/ BatchStore

IngestCore(files) ==
  \/ IngestStart(files)
  \/ \E o \in InitOutcomes : ProcessPDFResume(o)
  \/ IngestSteps

\* the steps that need more than one batch, or an embed that has failed for
\* good while another embed of its batch is still running
IngestRest ==
  \/ BatchNext
  \/ \E k \in 1..MaxSlots : \E out \in EmbedOutcomes : OrphanRespond(k, out)
  \/ \E k \in 1..MaxSlots : OrphanFire(k)

\* the files at hand: those of Blobs and the one exportIndex has written
TransferNext ==
  \/ exportIndex
  \/ \E data \in Blobs : importIndex(data)
  \/ xfer.exported /\ importIndex(xfer.blob)

AdminNext ==
  \/ \E key \in BOOLEAN : Initialize(key)
  \/ \E o \in InitOutcomes : InitializeResume(o)
  \/ TransferNext
  \/ Cleanup

\* with fewer than maxRetries + 1 failures and files of at most batchSize
\* chunks, no step of IngestRest is enabled
Next == QueryNext(Queries) \/ IngestCore(Files) \/ AdminNext

Spec == Init /\ [][Next]_vars

\* ------------------------------------------------------------------------
\* Ingestions on a service that is not asked questions
\* ------------------------------------------------------------------------
IngestLimits ==
  [ingests |-> MaxIngests, queries |-> 0, ticks |-> 0,
   failures |-> IngestFailures, admin |-> 0]

InitIngest == InitService /\ InitRest /\ lim = IngestLimits

NextIngest == IngestCore(IngestFiles) \/ IngestRest

SpecIngest == InitIngest /\ [][NextIngest]_vars

\* ------------------------------------------------------------------------
\* One document of six pages, with a page longer than a chunk or without
\* ------------------------------------------------------------------------
OrderLimits ==
  [ingests |-> OrderIngests, queries |-> 0, ticks |-> 0,
   failures |-> OrderFailures, admin |-> 0]

InitOrder == InitService /\ InitRest /\ lim = OrderLimits

NextOrder == IngestCore(OrderFiles) \/ IngestRest

SpecOrder == InitOrder /\ [][NextOrder]_vars

\* ------------------------------------------------------------------------
\* A document whose page is as long as a chunk may be
\* ------------------------------------------------------------------------
FullLimits ==
  [ingests |-> FullIngests, queries |-> 0, ticks |-> 0,
   failures |-> FullFailures, admin |-> 0]

InitFull == InitService /\ InitRest /\ lim = FullLimits

NextFull == IngestCore(FullFiles)

SpecFull == InitFull /\ [][NextFull]_vars

\* ------------------------------------------------------------------------
\* initialize, importIndex, processPDF and cleanup on the service as
\* constructed
\* ------------------------------------------------------------------------
AdminLimits ==
  [ingests |-> AdminIngests, queries |-> 0, ticks |-> 0,
   failures |-> AdminFailures, admin |-> AdminCalls]

InitAdmin == InitService /\ InitRest /\ lim = AdminLimits

NextAdmin ==
  \/ \E key \in BOOLEAN : Initialize(key)
  \/ \E o \in InitOutcomes : InitializeResume(o)
  \/ \E data \in Blobs : importIndex(data)
  \/ Cleanup
  \/ IngestCore({File_a})

SpecAdmin == InitAdmin /\ [][NextAdmin]_vars

\* ------------------------------------------------------------------------
\* A document whose page has no text
\* ------------------------------------------------------------------------
BlankLimits ==
  [ingests |-> BlankIngests, queries |-> 0, ticks |-> 0,
   failures |-> BlankFailures, admin |-> 0]

InitBlank == InitService /\ InitRest /\ lim = BlankLimits

NextBlank == IngestCore(BlankFiles)

SpecBlank == InitBlank /\ [][NextBlank]_vars

\* ------------------------------------------------------------------------
\* Two documents ingested by the same service instance
\* ------------------------------------------------------------------------
DocsLimits ==
  [ingests |-> DocsIngests, queries |-> 0, ticks |-> 0,
   failures |-> DocsFailures, admin |-> 0]

InitDocs == InitService /\ InitRest /\ lim = DocsLimits

NextDocs == IngestCore(Files)

SpecDocs == InitDocs /\ [][NextDocs]_vars

\* ------------------------------------------------------------------------
\* A session of questions on an ingested document
\* ------------------------------------------------------------------------
LoadedChunks == ChunksOfPages(File_a, 1, Len(File_a.pages), "worker")

\* the service after initialize() and processPDF("a.pdf") have succeeded
LoadedService ==
  /\ openai = TRUE
  /\ initialized = TRUE
  /\ pdfWorker = TRUE
  /\ db = [null |-> FALSE,
           docs |-> [k \in 1..Len(LoadedChunks) |->
                       IndexEntry(File_a.name, LoadedChunks[k],
                                  Embedding(LoadedChunks[k].text))]]
  /\ now = 0
  /\ ing = [IdleIngest EXCEPT !.file = File_a, !.path = "worker",
                              !.pagesDone = Len(File_a.pages),
                              !.chunks = LoadedChunks, !.result = "success",
                              !.ownWorker = TRUE, !.workerAlive = TRUE,
                              !.progress =
                                <<ExtractionProgress(Len(File_a.pages),
                                                     Len(File_a.pages)),
                                  EmbeddingProgress(Len(LoadedChunks),
                                                    Len(LoadedChunks))>>]
  /\ tasks = <<>>
  /\ orphans = <<>>
  /\ qry = IdleQuery
  /\ par = IdlePar
  /\ streamed = {}
  /\ failures = 0
  /\ ticks = 0
  /\ nIngests = 1
  /\ nQueries = 0
  /\ nAdmin = 0
  /\ xfer = NoTransfer
  /\ split = NoSplit
  /\ ovl = NoCalls
  /\ booting = 0

\* the embedding cache that the ingestion of a.pdf leaves
LoadedEmbeddings ==
  [k \in 1..Len(LoadedChunks) |->
     [key |-> LoadedChunks[k].metadata.hash,
      value |-> Embedding(LoadedChunks[k].text)]]

LoadedTexts == {LoadedChunks[k].text : k \in 1..Len(LoadedChunks)}

InitLoaded ==
  /\ LoadedService
  /\ embeddingCache = LoadedEmbeddings
  /\ responseCache = <<>>
  /\ since = LoadedTexts
  /\ ever = LoadedTexts
  /\ mru = NoKey

QueryLimits ==
  [ingests |-> 1, queries |-> MaxQueries, ticks |-> MaxTicks,
   failures |-> 0, admin |-> 0]

InitQuery == InitLoaded /\ lim = QueryLimits

\* the questions of LoadedQueries are blank or in the embedding cache
NextQuery ==
  \/ QueryCore(LoadedQueries)
  \/ \E d \in TickSteps : Tick(d)

SpecQuery == InitQuery /\ [][NextQuery]_vars

\* ------------------------------------------------------------------------
\* The initialized service with an empty index: one text is ingested and
\* asked for, with cleanup() or importIndex() in between, one call at a
\* time. A run either has failing embedding calls or has imports
\* ------------------------------------------------------------------------
ReuseLimits ==
  [ingests |-> ReuseIngests, queries |-> ReuseQueries, ticks |-> 0,
   failures |-> ReuseFailures, admin |-> ReuseAdminCalls, imports |-> 0]

\* a run with imports: one ingestion, one question, no failing call
ReuseImportLimits ==
  [ingests |-> 1, queries |-> 1, ticks |-> 0,
   failures |-> 0, admin |-> ReuseAdminCalls, imports |-> ReuseImports]

InitReuse ==
  /\ InitRest
  /\ openai = TRUE
  /\ initialized = TRUE
  /\ pdfWorker = TRUE
  /\ db = [null |-> FALSE, docs |-> <<>>]
  /\ embeddingCache = <<>>
  /\ responseCache = <<>>
  /\ lim \in {ReuseLimits, ReuseImportLimits}

\* no call of the service is in progress
Quiet ==
  /\ QueryIdle
  /\ ing.pc = "idle"
  /\ Unfinished(tasks) = <<>>
  /\ Unfinished(orphans) = <<>>

\* index files with no document: one whose embeddingCache member holds the
\* hash of the question, one whose embeddingCache member is empty, one
\* without embeddingCache member
ReuseBlobs ==
  {Blob(IndexVersion, embeddingDimensions, <<>>, TRUE,
        <<<<generateHash(S_Aa), Embedding(S_Aa)>>>>),
   Blob(IndexVersion, embeddingDimensions, <<>>, TRUE, <<>>),
   EmptyIndex}

\* the calls follow one another, as the page makes them: a call begins when
\* the one before it has returned
NextReuse ==
  \/ Quiet /\ IngestStart({File_a})
  \/ IngestSteps
  \/ Quiet /\ QueryStart({S_Aa})
  \/ QuerySteps
  \/ EmbedNext
  \/ Quiet /\ Cleanup
  \/ /\ Quiet
     /\ xfer.imports < lim.imports
     /\ \E data \in ReuseBlobs : importIndex(data)

SpecReuse == InitReuse /\ [][NextReuse]_vars

\* ------------------------------------------------------------------------
\* The parallel request service: processParallel and its retries
\* ------------------------------------------------------------------------
\* Math.random() * 1000, in whole milliseconds
Jitters == {999}

isRetryableError(err) ==
  err.status \in {500, 502, 503, 504} \/ err.code \in {"ECONNRESET", "ETIMEDOUT"}

calculateBackoffDelay(retries, jitter) ==
  Min2((parRetryDelay * Pow2(retries)) + jitter, parMaxBackoff)

\* the two tests of executeRequestWithRetry's catch
ShouldRetryRequest(err, retries) ==
  \/ err.status = 429 /\ retries < parMaxRetries
  \/ isRetryableError(err) /\ retries < parMaxRetries

\* a request handed to processParallel: "queued" it waits for a slot of the
\* limiter, "call" its chat call is in flight, "wait" its backoff timer
\* runs, "ok" and "failed" it has settled
NewRequest == [st |-> "queued", retries |-> 0, calls |-> 0, err |-> NoErr, delay |-> 0]

\* the limiter runs the request: requestsInFlight++ and the chat call is sent
SentRequest == [NewRequest EXCEPT !.st = "call", !.calls = 1]

\* Math.min(Math.max(1, concurrency), this.maxConcurrency)
safeConcurrency(concurrency) ==
  Min2(IF concurrency < 1 THEN 1 ELSE concurrency, maxConcurrency)

\* the option concurrency of a call: 0, 1 and the default
Concurrencies == {0, 1, defaultConcurrency}

notPar ==
  <<openai, db, initialized, pdfWorker, embeddingCache, responseCache, now,
    ing, tasks, orphans, qry, since, ever, streamed, mru, failures, lim, ticks,
    nIngests, nQueries, nAdmin, xfer, split, ovl, booting>>

\* the chat calls that have failed so far
ParFailed ==
  Cardinality({x \in (1..MaxParCalls) \X (1..MaxParRequests) \X (1..(parMaxRetries + 1)) :
                 /\ x[1] <= Len(par.calls)
                 /\ x[2] <= Len(par.calls[x[1]].reqs)
                 /\ LET r == par.calls[x[1]].reqs[x[2]]
                    IN x[3] <= r.retries + (IF r.st \in {"wait", "failed"} THEN 1 ELSE 0)})

\* resetStatistics(), of which requestsInFlight is the counter modelled
resetStatistics ==
  /\ par' = [par EXCEPT !.requestsInFlight = 0]
  /\ UNCHANGED notPar

\* processParallel(requests, {concurrency}) with n requests, fewer than the
\* requests-per-minute limit. Without a client and without an API key (key
\* is FALSE) initialize() throws and nothing else is done. Else the
\* statistics are reset, whatever calls are in progress, and the limiter
\* runs the first requests, as many as the concurrency allows
processParallel(n, concurrency, key) ==
  /\ Len(par.calls) < lim.parCalls
  /\ par' = IF ~par.openai /\ ~key
            THEN [par EXCEPT !.calls = Append(@, [pc |-> "rejected", limit |-> 0,
                                                  reqs |-> <<>>])]
            ELSE LET limit == safeConcurrency(concurrency)
                 IN [openai |-> TRUE,
                     requestsInFlight |-> Min2(n, limit),
                     calls |-> Append(par.calls,
                                 [pc |-> "running", limit |-> limit,
                                  reqs |-> [i \in 1..n |->
                                              IF i <= limit THEN SentRequest
                                              ELSE NewRequest]])]
  /\ UNCHANGED notPar

\* the chat call of request i of call c comes back. A request that settles
\* leaves the limiter (requestsInFlight--), which runs the next request of
\* the call that is queued
ParRespond(c, i, out, jitter) ==
  /\ c \in 1..Len(par.calls)
  /\ i \in 1..Len(par.calls[c].reqs)
  /\ par.calls[c].reqs[i].st = "call"
  /\ out # Ok => ParFailed < lim.parFailures
  /\ LET r == par.calls[c].reqs[i]
         r1 == IF out = Ok
               THEN [r EXCEPT !.st = "ok"]
               ELSE IF ShouldRetryRequest(out, r.retries)
               THEN [r EXCEPT !.st = "wait", !.err = out,
                              !.delay = calculateBackoffDelay(r.retries, jitter)]
               ELSE [r EXCEPT !.st = "failed", !.err = out]
         settled == r1.st \in {"ok", "failed"}
         reqs1 == [par.calls[c].reqs EXCEPT ![i] = r1]
         queued == {k \in 1..Len(reqs1) : reqs1[k].st = "queued"}
         runNext == settled /\ queued # {}
         reqs2 == IF runNext
                  THEN [reqs1 EXCEPT ![CHOOSE k \in queued : \A j \in queued : k <= j]
                                        = SentRequest]
                  ELSE reqs1
     IN par' = [par EXCEPT
                  !.calls[c].reqs = reqs2,
                  !.requestsInFlight = (@ - (IF settled THEN 1 ELSE 0))
                                         + (IF runNext THEN 1 ELSE 0)]
  /\ UNCHANGED notPar

\* the backoff timer of request i of call c fires
ParFire(c, i) ==
  /\ c \in 1..Len(par.calls)
  /\ i \in 1..Len(par.calls[c].reqs)
  /\ par.calls[c].reqs[i].st = "wait"
  /\ par' = [par EXCEPT !.calls[c].reqs[i] =
                [st |-> "call", retries |-> @.retries + 1,
                 calls |-> @.calls + 1, err |-> NoErr, delay |-> 0]]
  /\ UNCHANGED notPar

\* Promise.all of call c resolves: every request of the call has settled
ParFinish(c) ==
  /\ c \in 1..Len(par.calls)
  /\ par.calls[c].pc = "running"
  /\ \A i \in 1..Len(par.calls[c].reqs) : par.calls[c].reqs[i].st \in {"ok", "failed"}
  /\ par' = [par EXCEPT !.calls[c].pc = "done"]
  /\ UNCHANGED notPar

ParNext ==
  \/ \E n \in 1..MaxParRequests : \E concurrency \in Concurrencies :
       \E key \in BOOLEAN : processParallel(n, concurrency, key)
  \/ \E c \in 1..MaxParCalls : \E i \in 1..MaxParRequests :
       \E out \in {Ok} \cup ParErrors : \E jitter \in Jitters :
         ParRespond(c, i, out, jitter)
  \/ \E c \in 1..MaxParCalls : \E i \in 1..MaxParRequests : ParFire(c, i)
  \/ \E c \in 1..MaxParCalls : ParFinish(c)
  \/ resetStatistics

\* both retrying callers, which share no state: a run is of one question
\* of the RAG service, or of the parallel request service
ParLimits ==
  [ingests |-> 1, queries |-> ParQueries, ticks |-> 0,
   failures |-> ParFailures, admin |-> 0, parCalls |-> 0, parFailures |-> 0]

ParOnlyLimits ==
  [ingests |-> 1, queries |-> 0, ticks |-> 0, failures |-> 0, admin |-> 0,
   parCalls |-> MaxParCalls, parFailures |-> MaxParFailures]

InitPar == InitLoaded /\ lim \in {ParLimits, ParOnlyLimits}

NextPar == QueryNext(NewQueries) \/ ParNext

SpecPar == InitPar /\ [][NextPar]_vars

\* ------------------------------------------------------------------------
\* One question whose embedding is retried (fair: every call returns and
\* every timer fires)
\* ------------------------------------------------------------------------
RetryLimits ==
  [ingests |-> 1, queries |-> RetryQueries, ticks |-> 0,
   failures |-> MaxFailures, admin |-> 0]

InitRetry == InitLoaded /\ lim = RetryLimits

NextRetry == QueryNext(NewQueries)

SpecRetry ==
  /\ InitRetry
  /\ [][NextRetry]_vars
  /\ WF_vars(\E out \in EmbedOutcomes : QueryEmbedRespond(out))
  /\ WF_vars(QueryEmbedFire)

\* ------------------------------------------------------------------------
\* The loaded service after many earlier questions: the response cache
\* holds about a hundred answers
\* ------------------------------------------------------------------------
\* earlier questions: one character each, in no file
EarlierQuery(i) == <<200 + i>>

\* what the index returns for a question about a.pdf, in index order
LoadedDocs ==
  [k \in 1..Len(LoadedChunks) |->
     HitDoc([document |-> IndexEntry(File_a.name, LoadedChunks[k],
                                     Embedding(LoadedChunks[k].text)),
             score |-> 90])]

\* the oldest answer in the cache is the one to the question "Aa"
OldestKey == CacheKey(S_Aa, LoadedDocs)

EarlierResponses(n) ==
  [i \in 1..n |->
     [key |-> IF i = 1 THEN OldestKey ELSE CacheKey(EarlierQuery(i), LoadedDocs),
      value |-> [data |-> AnswerResult(LoadedDocs), timestamp |-> 0]]]

CacheLimits ==
  [ingests |-> 1, queries |-> CacheQueries, ticks |-> 0,
   failures |-> 0, admin |-> 0]

InitCache ==
  /\ LoadedService
  /\ embeddingCache = LoadedEmbeddings
  /\ \E n \in {ResponseCacheMax - 1, ResponseCacheMax} :
       /\ responseCache = EarlierResponses(n)
       /\ mru = responseCache[n].key
  /\ since = LoadedTexts
  /\ ever = LoadedTexts
  /\ lim = CacheLimits

\* the question "Aa" is in the embedding cache
NextCache == QueryCore(CacheProbes)

SpecCache == InitCache /\ [][NextCache]_vars

\* ------------------------------------------------------------------------
\* The loaded service after many earlier questions: the embedding cache
\* holds a hundred vectors
\* ------------------------------------------------------------------------
EarlierEmbeddings(n) ==
  [i \in 1..n |-> [key |-> generateHash(EarlierQuery(i)),
                   value |-> Embedding(EarlierQuery(i))]]

GrowLimits ==
  [ingests |-> 1, queries |-> GrowQueries, ticks |-> 0,
   failures |-> GrowFailures, admin |-> 0]

InitGrow ==
  /\ LoadedService
  /\ embeddingCache =
       LoadedEmbeddings \o EarlierEmbeddings(ExportCacheLimit - Len(LoadedEmbeddings))
  /\ responseCache = <<>>
  /\ mru = NoKey
  /\ since = LoadedTexts
             \cup {EarlierQuery(i) : i \in 1..(ExportCacheLimit - Len(LoadedEmbeddings))}
  /\ ever = since
  /\ lim = GrowLimits

NextGrow == QueryNext(NewQueries)

SpecGrow == InitGrow /\ [][NextGrow]_vars

\* ------------------------------------------------------------------------
\* The service after the ingestion of a document of eleven pages: one more
\* than a retrieval returns
\* ------------------------------------------------------------------------
N_w == <<119>>
File_w == [name |-> N_w, pages |-> [i \in 1..(topK + 1) |-> EarlierQuery(i)]]

WideChunks == ChunksOfPages(File_w, 1, Len(File_w.pages), "worker")

\* the question is the text of the first page
WideQueries == {EarlierQuery(1)}

WideLimits ==
  [ingests |-> 1, queries |-> WideCalls, ticks |-> 0, failures |-> 0,
   admin |-> 0]

InitWide ==
  /\ InitRest
  /\ openai = TRUE
  /\ initialized = TRUE
  /\ pdfWorker = TRUE
  /\ db = [null |-> FALSE,
           docs |-> [k \in 1..Len(WideChunks) |->
                       IndexEntry(File_w.name, WideChunks[k],
                                  Embedding(WideChunks[k].text))]]
  /\ embeddingCache = [k \in 1..Len(WideChunks) |->
                         [key |-> WideChunks[k].metadata.hash,
                          value |-> Embedding(WideChunks[k].text)]]
  /\ responseCache = <<>>
  /\ lim = WideLimits

NextWide == QueryStart(WideQueries) \/ QueryStepsWith(Replies \cup MixedReplies)

SpecWide == InitWide /\ [][NextWide]_vars

\* ------------------------------------------------------------------------
\* Questions with a context budget, asked of the service after the ingestion
\* of a document of three pages of 1, 2 and 1 estimated tokens: "C", "Aaaa"
\* and "ABC". The third page is a line of capitals, a title for
\* calculateImportance, so that its importance is above that of the two
\* others, which are equal
\* ------------------------------------------------------------------------
N_x == <<120>>
S_Title == <<65, 66, 67>>
File_x == [name |-> N_x, pages |-> <<S_C, <<65, 97, 97, 97>>, S_Title>>]

ContextChunks == ChunksOfPages(File_x, 1, Len(File_x.pages), "worker")

\* maxContextTokens: nothing fits, the second page does not fit after
\* another, the default
ContextBudgets == {0, 2, maxContextTokens}

ContextLimits ==
  [ingests |-> 1, queries |-> ContextCalls, ticks |-> 0, failures |-> 0,
   admin |-> 0]

InitContext ==
  /\ InitRest
  /\ openai = TRUE
  /\ initialized = TRUE
  /\ pdfWorker = TRUE
  /\ db = [null |-> FALSE,
           docs |-> [k \in 1..Len(ContextChunks) |->
                       IndexEntry(File_x.name, ContextChunks[k],
                                  Embedding(ContextChunks[k].text))]]
  /\ embeddingCache = [k \in 1..Len(ContextChunks) |->
                         [key |-> ContextChunks[k].metadata.hash,
                          value |-> Embedding(ContextChunks[k].text)]]
  /\ responseCache = <<>>
  /\ lim = ContextLimits

NextContext ==
  \/ \E st \in BOOLEAN : \E budget \in ContextBudgets :
       generateResponseWith(S_C, st, budget)
  \/ QuerySteps

SpecContext == InitContext /\ [][NextContext]_vars

\* ------------------------------------------------------------------------
\* Questions asked of the service as constructed, or of the loaded service
\* whose external calls fail
\* ------------------------------------------------------------------------
FailLimits ==
  [ingests |-> 1, queries |-> FailQueries, ticks |-> 0,
   failures |-> FailFailures, admin |-> 0]

InitFail ==
  /\ \/ InitService /\ InitRest
     \/ InitLoaded
  /\ lim = FailLimits

\* "D" has to be embedded, "Aa" is in the embedding cache
FailQuestions == {S_D, S_Aa}

NextFail == QueryNext(FailQuestions)

SpecFail == InitFail /\ [][NextFail]_vars

\* ------------------------------------------------------------------------
\* Index files written and read, on the service as constructed or on the
\* loaded service
\* ------------------------------------------------------------------------
IndexLimits ==
  [ingests |-> 1, queries |-> 0, ticks |-> 0, failures |-> 0,
   admin |-> IndexCalls]

InitIndex ==
  /\ \/ InitService /\ InitRest
     \/ InitLoaded
  /\ lim = IndexLimits

NextIndex == TransferNext

SpecIndex == InitIndex /\ [][NextIndex]_vars

\* ------------------------------------------------------------------------
\* A splitter of its own, with chunks of one token (four characters), and
\* one splitText call
\* ------------------------------------------------------------------------
\* tab, line feed, space, no-break space, full stop, "a"
SplitChars == {9, 10, 32, 160, 46, 97}

SplitTexts == UNION {[1..n -> SplitChars] : n \in 0..MaxTextLen}

\* new SimpleTextSplitter({chunkSize: 1, chunkOverlap: 0 or 1})
SplitConfigs ==
  {[chunkSize |-> 1, chunkOverlap |-> 0], [chunkSize |-> 1, chunkOverlap |-> 1]}

NoLimits ==
  [ingests |-> 0, queries |-> 0, ticks |-> 0, failures |-> 0, admin |-> 0]

InitSplit ==
  /\ InitService
  /\ InitIdle
  /\ ovl = NoCalls
  /\ booting = 0
  /\ lim = NoLimits
  /\ \E text \in SplitTexts : \E c \in SplitConfigs :
       split = [pc |-> "input", text |-> text, size |-> c.chunkSize,
                overlap |-> c.chunkOverlap, chunks |-> <<>>]

\* the splitText call returns
SplitCall ==
  /\ split.pc = "input"
  /\ split' = [split EXCEPT
                 !.pc = "done",
                 !.chunks = splitText(split.text, split.size, split.overlap)]
  /\ UNCHANGED <<lim, ovl, booting, xfer, openai, db, initialized, pdfWorker,
                 embeddingCache, responseCache, now, ing, tasks, orphans,
                 qry, par, since, ever, streamed, mru, failures, ticks,
                 nIngests, nQueries, nAdmin>>

NextSplit == SplitCall

SpecSplit == InitSplit /\ [][NextSplit]_vars

\* ------------------------------------------------------------------------
\* Embeds in progress
\* ------------------------------------------------------------------------
Embeds ==
  (IF qry.task.st = "none" THEN {} ELSE {qry.task})
  \cup {tasks[k] : k \in 1..Len(tasks)}
  \cup {orphans[k] : k \in 1..Len(orphans)}

\* ------------------------------------------------------------------------
\* C1
\* ------------------------------------------------------------------------
\* C1: when the retrieval of a query yields zero results, generateResponse
\* returns the no-information answer with no sources, the chat-completion
\* endpoint is not called for that query (no rerank call, no answer call)
\* and nothing is written to the response cache.
C1_ZeroResults ==
  qry.zero =>
    /\ qry.pc = "done"
    /\ qry.result = NoInfoResult
    /\ qry.rerankCalls = 0
    /\ qry.answerCalls = 0
    /\ ~qry.wrote

\* a question that is not blank was embedded and the index returned no hit
C1_Witness ==
  /\ qry.zero
  /\ ~BlankQuery(qry.query)
  /\ qry.task.st = "done"
  /\ qry.pc = "done"

\* ------------------------------------------------------------------------
\* C2
\* ------------------------------------------------------------------------
\* C2 as stated: once an embed of x has succeeded, every later embed of x is
\* served from the embedding cache and makes no external call.
C2_Original ==
  \A t \in Embeds : t.preEver => t.fromCache /\ t.calls = 0

\* C2 amended: once an embed of x has succeeded, every embed of x that
\* begins later is served from the embedding cache and makes no external
\* embedding call, provided that no cleanup() and no importIndex() of a
\* file whose embeddingCache member lacks the hash of x has come in
\* between.
C2_ServedFromCache ==
  \A t \in Embeds : t.pre => t.fromCache /\ t.calls = 0 /\ t.st = "done"

\* a file was ingested, an index file whose embeddingCache member holds the
\* hash of one of its chunks was imported, and a question with the text of
\* that chunk was then served from the cache
C2_Witness ==
  /\ ing.result = "success"
  /\ xfer.imports > 0
  /\ xfer.accepted
  /\ xfer.data.hasCache
  /\ embeddingCache # <<>>
  /\ qry.task.pre
  /\ qry.task.fromCache
  /\ qry.task.calls = 0

\* ------------------------------------------------------------------------
\* C3
\* ------------------------------------------------------------------------
C3_Bounded ==
  \A t \in Embeds :
    /\ t.calls <= 1 + maxRetries
    /\ t.st = "failed" => t.calls = 1 + maxRetries
    /\ t.st = "done" /\ ~t.fromCache =>
         t.emb = Embedding(t.text) /\ t.calls = t.retries + 1
    /\ t.st \in {"call", "wait"} => t.calls = t.retries + 1

\* C3: one embed makes at most 1 + maxRetries = 4 calls to the embedding
\* endpoint, returns the vector of the attempt that succeeds without
\* calling again, fails only after its 4 calls have failed, and terminates
\* when every call returns.
C3_RetryBound ==
  /\ []C3_Bounded
  /\ (qry.pc = "embed") ~> (qry.pc # "embed")

\* an embed has succeeded at its last allowed attempt
C3_Witness ==
  /\ qry.task.st = "done"
  /\ qry.task.retries = maxRetries
  /\ qry.task.calls = 1 + maxRetries

\* ------------------------------------------------------------------------
\* C4
\* ------------------------------------------------------------------------
\* C4: the wait before the retry that follows retryCount earlier retries is
\* retryDelay * 2^retryCount: 1000, 2000, 4000 ms.
C4_ExponentialDelay ==
  \A t \in Embeds : t.st = "wait" => t.delay = retryDelay * Pow2(t.retries)

\* ------------------------------------------------------------------------
\* C5
\* ------------------------------------------------------------------------
\* C5: an external call is retried only after a transient failure (429,
\* 500, 502, 503, 504, connection reset or timeout); any other failure is
\* surfaced after the first attempt, with no retry and no delay.
C5_RetryOnlyTransient ==
  /\ \A t \in Embeds : t.st = "wait" => Transient(t.err)
  /\ \A c \in 1..Len(par.calls) : \A i \in 1..Len(par.calls[c].reqs) :
       par.calls[c].reqs[i].st = "wait" => Transient(par.calls[c].reqs[i].err)

\* ------------------------------------------------------------------------
\* C6
\* ------------------------------------------------------------------------
\* C6: the embedding cache is bounded: its number of entries never exceeds
\* a fixed capacity (the hundred entries that exportIndex keeps).
C6_Bounded == Len(embeddingCache) <= ExportCacheLimit

\* ------------------------------------------------------------------------
\* C8
\* ------------------------------------------------------------------------
\* the keys that a step removes from the response cache
Evicted == {k \in {responseCache[i].key : i \in 1..Len(responseCache)} :
              ~MapHas(responseCache', k)}

\* a step in which generateResponse calls setResponseCache
Written == ~qry.wrote /\ qry'.wrote

\* C8: after a write the response cache holds at most 100 entries and the
\* entry just written; a write evicts at most one entry, and the entry it
\* evicts is the least recently used one, so it is never the entry that was
\* read or written last before the write.
C8_LeastRecentlyUsed ==
  [][Written =>
       /\ Len(responseCache') <= ResponseCacheMax
       /\ MapHas(responseCache', qry'.key)
       /\ Cardinality(Evicted) <= 1
       /\ \A k \in Evicted : k # mru]_vars

\* ------------------------------------------------------------------------
\* C7
\* ------------------------------------------------------------------------
\* C7: generateResponse serves a response cache entry only while its age is
\* below the TTL of one hour; an entry of age one hour or more is a miss and
\* the completion endpoint is called.
C7_TTL ==
  /\ qry.result.cached => qry.hitAge >= 0 /\ qry.hitAge < ResponseTTL
  /\ qry.stale =>
       /\ ~qry.result.cached
       /\ qry.pc \in {"complete", "streaming", "done"}
       /\ qry.answerCalls = 1

\* an entry of age one hour or more was found and the answer was generated
\* again
C7_Witness ==
  /\ qry.stale
  /\ qry.pc = "done"
  /\ qry.result.kind = "answer"

\* ------------------------------------------------------------------------
\* C9
\* ------------------------------------------------------------------------
\* C9: a generateResponse call whose query and set of retrieved sources are
\* those of a fresh response cache entry is a cache hit, whatever the order
\* of the sources.
C9_KeyIgnoresOrder == qry.permFresh => qry.result.cached

\* ------------------------------------------------------------------------
\* C10
\* ------------------------------------------------------------------------
\* C10: after a streamed answer was read to its end, a generateResponse
\* call with the same query and the same retrieved sources within the TTL
\* is a cache hit.
C10_StreamCached == qry.streamedFresh => qry.result.cached

\* ------------------------------------------------------------------------
\* Two processPDF calls on the worker path that overlap
\* ------------------------------------------------------------------------
\* "h.pdf" has one page; the texts of c.pdf and of h.pdf are those of a.pdf
N_h == <<104>>
File_h == [name |-> N_h, pages |-> <<S_Aa>>]
OverlapFiles == {File_c, File_h}

OverlapFrame ==
  UNCHANGED <<lim, booting, openai, initialized, pdfWorker, embeddingCache,
              responseCache, now, ing, tasks, orphans, qry, par, since, ever,
              streamed, mru, failures, ticks, nIngests, nQueries, nAdmin,
              xfer, split>>

\* processPDFWithWorker of call c: handleWorkerMessage is registered with
\* the worker of the service and the file is posted to it
processPDFWithWorker(c, f) ==
  /\ initialized /\ pdfWorker
  /\ ovl[c].pc = "none"
  /\ \A b \in CallIds : b < c => ovl[b].pc # "none"
  /\ ovl' = [ovl EXCEPT ![c] = [NoCall EXCEPT !.pc = "listening",
                                             !.job = "running", !.file = f]]
  /\ UNCHANGED db
  /\ OverlapFrame

\* the batch-complete branch of the handler of call c, for the message of
\* job j with the pages first..last: the chunks are tagged with the file
\* name of call c
BatchCompleteOf(c, j, first, last) ==
  LET heard == [name |-> ovl[c].file.name, pages |-> ovl[j].file.pages]
      chunks == ChunksOfPages(heard, first, last, "worker")
  IN [ovl[c] EXCEPT
        !.allChunks = @ \o chunks,
        !.from = @ \o [k \in 1..Len(chunks) |-> j],
        !.progress = IF BatchThrows(heard, first, last) THEN @
                     ELSE Append(@, ExtractionProgress(last, Len(heard.pages)))]

\* the processing-complete branch of the handler of call c, for the
\* message of job j: the handler is removed and the embedding phase begins
ProcessingCompleteOf(c, j) ==
  IF ovl[c].allChunks = <<>>
  THEN [ovl[c] EXCEPT !.pc = "done", !.result = "success", !.endedBy = j]
  ELSE [ovl[c] EXCEPT !.pc = "embedding", !.endedBy = j]

\* the worker posts the next batch of job j: the message goes to every
\* handler that is registered
WorkerBatch(j) ==
  /\ ovl[j].job = "running"
  /\ ovl[j].sent < Len(ovl[j].file.pages)
  /\ LET first == ovl[j].sent + 1
         last == Min2(ovl[j].sent + WorkerPagesPerBatch, Len(ovl[j].file.pages))
         heard == [c \in CallIds |->
                     IF ovl[c].pc = "listening"
                     THEN BatchCompleteOf(c, j, first, last) ELSE ovl[c]]
     IN ovl' = [heard EXCEPT ![j].sent = last]
  /\ UNCHANGED db
  /\ OverlapFrame

\* the worker posts processing-complete for job j
WorkerComplete(j) ==
  /\ ovl[j].job = "running"
  /\ ovl[j].sent = Len(ovl[j].file.pages)
  /\ LET heard == [c \in CallIds |->
                     IF ovl[c].pc = "listening"
                     THEN ProcessingCompleteOf(c, j) ELSE ovl[c]]
     IN ovl' = [heard EXCEPT ![j].job = "ended"]
  /\ UNCHANGED db
  /\ OverlapFrame

\* job j fails in the worker, which posts an error message: the error
\* branch of every handler that is registered removes it and rejects
WorkerError(j) ==
  /\ ovl[j].job = "running"
  /\ LET heard == [c \in CallIds |->
                     IF ovl[c].pc = "listening"
                     THEN [ovl[c] EXCEPT !.pc = "done", !.result = "error",
                                         !.endedBy = j]
                     ELSE ovl[c]]
     IN ovl' = [heard EXCEPT ![j].job = "ended"]
  /\ UNCHANGED db
  /\ OverlapFrame

\* generateAndStoreEmbeddings of call c stores its next chunk, whose
\* vector is in the embedding cache; onProgress is called after the last
\* chunk of a batch
StoreNext(c) ==
  /\ ovl[c].pc = "embedding"
  /\ LET n == ovl[c].stored + 1
         total == Len(ovl[c].allChunks)
         chunk == ovl[c].allChunks[n]
         entry == IndexEntry(ovl[c].file.name, chunk,
                             MapGet(embeddingCache, chunk.metadata.hash))
         r == InsertAll(db.docs, <<entry>>)
     IN /\ MapHas(embeddingCache, chunk.metadata.hash)
        /\ db' = [db EXCEPT !.docs = r.docs]
        /\ ovl' = [ovl EXCEPT ![c] =
                     IF ~r.ok
                     THEN [@ EXCEPT !.pc = "done", !.result = "error"]
                     ELSE [@ EXCEPT
                             !.stored = n,
                             !.progress =
                               IF n % batchSize = 0 \/ n = total
                               THEN Append(@, EmbeddingProgress(n, total))
                               ELSE @,
                             !.pc = IF n = total THEN "done" ELSE "embedding",
                             !.result = IF n = total THEN "success" ELSE "none"]]
  /\ OverlapFrame

InitOverlap == InitLoaded /\ lim = NoLimits

NextOverlap ==
  \/ \E c \in CallIds : \E f \in OverlapFiles : processPDFWithWorker(c, f)
  \/ \E j \in CallIds : WorkerBatch(j)
  \/ \E j \in CallIds : WorkerComplete(j)
  \/ \E j \in CallIds : WorkerError(j)
  \/ \E c \in CallIds : StoreNext(c)

SpecOverlap == InitOverlap /\ [][NextOverlap]_vars

\* ------------------------------------------------------------------------
\* C11
\* ------------------------------------------------------------------------
\* searchSemantic has thrown: the outermost message is that of its catch
RetrievalFailed(q) ==
  q.error.wrap # <<>> /\ q.error.wrap[1] = "Erro na busca"

\* s is the sequence of the first min(n, Len(full)) elements of full
IsPrefixOfLength(s, full, n) ==
  /\ Len(s) = Min2(n, Len(full))
  /\ \A i \in 1..Len(s) : s[i] = full[i]

\* C11: when the call of the reranker fails, the retrieval does not fail:
\* it returns the candidates in the order of the index search, cut to the
\* limit of ten.
C11_RerankFailure ==
  qry.rerank = "failed" =>
    /\ ~RetrievalFailed(qry)
    /\ qry.pc \in {"complete", "streaming", "done"}
    /\ IsPrefixOfLength(qry.retrieved, qry.candidates, topK)

\* the reranker has failed on eleven candidates and ten were returned
C11_Witness ==
  /\ qry.rerank = "failed"
  /\ Len(qry.candidates) = topK + 1
  /\ Len(qry.retrieved) = topK
  /\ qry.result.kind = "answer"

\* ------------------------------------------------------------------------
\* C12
\* ------------------------------------------------------------------------
\* tok is a decimal number between 1 and n
IsIndexToken(tok, n) ==
  /\ tok # <<>>
  /\ \A i \in 1..Len(tok) : IsDigit(tok[i])
  /\ DigitsValue(tok, -1, 10) \in 1..n

\* content is a comma-separated list of numbers between 1 and n
IsRanking(content, n) ==
  LET toks == SplitOn(Trim(content), 44, <<>>)
  IN \A i \in 1..Len(toks) : IsIndexToken(Trim(toks[i]), n)

\* C12: when the reply of the reranker is not a comma-separated list of
\* candidate numbers (a token is not a number, or is a number outside
\* 1..number of candidates), the candidates keep their order and none is
\* removed (but for the cut to the limit).
C12_UnparsableReply ==
  qry.rerank = "replied" /\ ~IsRanking(qry.reply, Len(qry.candidates)) =>
    IsPrefixOfLength(qry.retrieved, qry.candidates, topK)

\* ------------------------------------------------------------------------
\* C13
\* ------------------------------------------------------------------------
\* C13: when the vector search throws, the retrieval runs the text search
\* on the same index and goes on with its hits (at most ten) instead of
\* failing; it fails only when the text search throws as well.
C13_TextFallback ==
  /\ qry.search.vector = "threw" => qry.search.text # "none" /\ qry.searches = 2
  /\ qry.search.vector = "threw" /\ qry.search.text = "ok" =>
       /\ ~RetrievalFailed(qry)
       /\ Len(qry.candidates) <= topK
       /\ \A i \in 1..Len(qry.candidates) : qry.candidates[i].score \in {50} \cup TextScores
       /\ \A i \in 1..Len(qry.retrieved) :
            \E j \in 1..Len(qry.candidates) : qry.retrieved[i] = qry.candidates[j]
       /\ qry.rerank = "failed" => qry.retrieved = qry.candidates
  /\ RetrievalFailed(qry) /\ qry.error.cause = ErrSearch =>
       qry.search.vector = "threw" /\ qry.search.text = "threw"

\* the vector search threw and the ten hits of the text search were
\* returned
C13_Witness ==
  /\ qry.search.vector = "threw"
  /\ qry.search.text = "ok"
  /\ Len(qry.retrieved) = topK
  /\ qry.result.kind = "answer"

\* ------------------------------------------------------------------------
\* C14
\* ------------------------------------------------------------------------
\* the call has made no index search and no call of the chat endpoint, and
\* has ended with an error
FailedBeforeSearch(q) ==
  /\ q.pc = "done"
  /\ q.result = ErrorResult
  /\ RetrievalFailed(q)
  /\ q.searches = 0
  /\ q.search = [vector |-> "none", text |-> "none"]
  /\ q.rerankCalls = 0
  /\ q.answerCalls = 0
  /\ ~q.wrote

\* C14: a question asked of a service that is not initialized fails with
\* the error "not initialized"; a question whose embedding fails after its
\* retries fails with an error that carries the error of the embedding
\* call; in both cases no index search and no chat call is made.  When the
\* completion call fails, generateResponse fails and writes no response
\* cache entry.
C14_MandatoryFailures ==
  /\ qry.pc # "idle" /\ (~initialized \/ db.null) =>
       /\ FailedBeforeSearch(qry)
       /\ qry.error.cause = ErrNotInitialized
       /\ qry.task.st = "none"
  /\ qry.task.st = "failed" =>
       /\ FailedBeforeSearch(qry)
       /\ qry.task.calls = 1 + maxRetries
       /\ qry.error.cause = qry.task.err
       /\ qry.error.cause \in EmbedErrors
  /\ qry.error.wrap = <<"Falha ao gerar resposta">> =>
       /\ qry.pc = "done"
       /\ qry.result = ErrorResult
       /\ Len(qry.retrieved) > 0
       /\ ~qry.wrote
       /\ ~MapHas(responseCache, qry.key)
  /\ qry.pc = "done" /\ qry.answerCalls = 1 =>
       /\ qry.result.kind \in {"answer", "stream", "error"}
       /\ qry.wrote <=> qry.result.kind = "answer"
       /\ qry.result.kind = "error" <=> qry.error.wrap = <<"Falha ao gerar resposta">>

\* the embedding of a question has failed four times
C14_Witness ==
  /\ qry.task.st = "failed"
  /\ qry.task.calls = 1 + maxRetries
  /\ qry.result = ErrorResult

\* ------------------------------------------------------------------------
\* C15
\* ------------------------------------------------------------------------
\* a step that is an importIndex call
Imported == xfer'.imports = xfer.imports + 1

\* the file has the version tag "2.0" and the configured dimension
WellTagged(data) ==
  /\ data.version = <<50, 46, 48>>
  /\ data.dimensions = embeddingDimensions

\* C15: importIndex rejects a file whose version is absent or is not "2.0"
\* and a file whose metadata.dimensions is not the configured dimension;
\* a rejected import leaves the index, the embedding cache and the
\* initialized flag as they were.
C15_RejectedImport ==
  [][Imported =>
       /\ ~WellTagged(xfer'.data) => ~xfer'.accepted
       /\ ~xfer'.accepted => UNCHANGED <<db, embeddingCache, initialized>>]_vars

\* a file of another dimension was rejected by a service whose index holds
\* documents
C15_Witness ==
  /\ xfer.imports > 0
  /\ ~xfer.accepted
  /\ xfer.data.version = IndexVersion
  /\ xfer.data.dimensions # embeddingDimensions
  /\ Len(db.docs) > 0
  /\ embeddingCache # <<>>

\* ------------------------------------------------------------------------
\* C19
\* ------------------------------------------------------------------------
\* C19: splitText returns no chunk for a text that is empty or made of
\* white space only, and never returns an empty chunk.
C19_BlankGivesNoChunk ==
  split.pc = "done" =>
    /\ Trim(split.text) = <<>> => split.chunks = <<>>
    /\ \A i \in 1..Len(split.chunks) : split.chunks[i] # <<>>

\* ------------------------------------------------------------------------
\* C20
\* ------------------------------------------------------------------------
\* the characters of s that are not white space
NonSpace(s) == SelectSeq(s, LAMBDA c : c \notin WhiteSpace)

RECURSIVE WordsFrom(_, _)
\* the words of s: its longest runs without white space; cur is the word
\* being read
WordsFrom(s, cur) ==
  IF s = <<>> THEN (IF cur = <<>> THEN <<>> ELSE <<cur>>)
  ELSE IF Head(s) \in WhiteSpace
       THEN (IF cur = <<>> THEN <<>> ELSE <<cur>>) \o WordsFrom(Tail(s), <<>>)
       ELSE WordsFrom(Tail(s), Append(cur, Head(s)))

RECURSIVE IsSubsequence(_, _)
\* the elements of a are found in b, in the order of a
IsSubsequence(a, b) ==
  IF a = <<>> THEN TRUE
  ELSE IF b = <<>> THEN FALSE
  ELSE IF Head(a) = Head(b) THEN IsSubsequence(Tail(a), Tail(b))
  ELSE IsSubsequence(a, Tail(b))

\* C20: no text is lost by splitText: every character of the text that is
\* not white space, and every word of the text, is found in the chunks, in
\* the order of the text (the overlap may repeat some of them).
C20_NoTextLost ==
  split.pc = "done" /\ Trim(split.text) # <<>> =>
    LET joined == JoinWith(split.chunks, <<32>>)
    IN /\ IsSubsequence(NonSpace(split.text), NonSpace(joined))
       /\ IsSubsequence(WordsFrom(split.text, <<>>), WordsFrom(joined, <<>>))

\* ------------------------------------------------------------------------
\* C17
\* ------------------------------------------------------------------------
\* chunk or index entry a comes before b in the order of the splitter
Before(a, b) ==
  \/ a.pageNumber < b.pageNumber
  \/ a.pageNumber = b.pageNumber /\ a.chunkIndex < b.chunkIndex

\* C17: the entries that one ingestion has put in the index (those after
\* the entries that were there when it began) are in the order of the
\* splitter: they are the first chunks of the document, one entry for each
\* chunk in the order of the chunks, by ascending page number and, within a
\* page, ascending chunk index. This holds on the worker path and on the
\* main path, across the batches of pages and the batches of embeds.
C17_InsertionOrder ==
  LET inserted == Len(db.docs) - ing.base
  IN /\ \A i, j \in 1..Len(ing.chunks) :
          i < j => Before(ing.chunks[i].metadata, ing.chunks[j].metadata)
     /\ inserted >= 0 /\ inserted <= Len(ing.chunks)
     /\ \A k \in 1..inserted :
          db.docs[ing.base + k].id
            = EntryId(ing.file.name, ing.chunks[k].metadata.pageNumber,
                      ing.chunks[k].metadata.chunkIndex)
     /\ \A i, j \in 1..inserted :
          i < j => Before(db.docs[ing.base + i], db.docs[ing.base + j])

\* the six pages of d.pdf are in the index, by the worker path: they came in
\* two batch-complete messages and were embedded in two batches
C17_Witness ==
  /\ ing.result = "success"
  /\ ing.path = "worker"
  /\ Len(db.docs) = 6
  /\ Len(db.docs) > batchSize
  /\ Len(db.docs) > WorkerPagesPerBatch

\* ------------------------------------------------------------------------
\* C18
\* ------------------------------------------------------------------------
\* C18: the index holds one document: once an ingestion has succeeded, every
\* entry of the index is an entry of the document just ingested (the entries
\* of a document ingested before are gone); and no two entries of the index
\* have the same id.
C18_SingleDocument ==
  /\ ing.pc = "idle" /\ ing.result = "success" =>
       \A k \in 1..Len(db.docs) : db.docs[k].source = ing.file.name
  /\ \A i, j \in 1..Len(db.docs) : db.docs[i].id = db.docs[j].id => i = j

\* ------------------------------------------------------------------------
\* C21
\* ------------------------------------------------------------------------
\* a chunk of one sentence (no separator of the splitter is in it) that is
\* longer than a chunk may be, by the count of the splitter or by the
\* estimate of the service
OversizedSentence(text) ==
  /\ \A k \in 1..Len(Separators) : ~Includes(text, Separators[k])
  /\ defaultTokenizer(text) > chunkSize \/ estimateTokens(text) > chunkSize

\* C21: every chunk of an ingested document, other than a chunk of one
\* oversized sentence, has a stored token count (ceil(length / 3)) of at
\* most the chunk size 800 plus 10%.
C21_ChunkSize ==
  \A k \in 1..Len(ing.chunks) :
    ~OversizedSentence(ing.chunks[k].text) =>
      10 * ing.chunks[k].metadata.totalTokens <= 11 * chunkSize

\* ------------------------------------------------------------------------
\* C22
\* ------------------------------------------------------------------------
\* C22: calculateImportance never throws and gives a score from 1.0 to 2.0:
\* no ingestion has met a chunk on which it throws, and every chunk of the
\* document has an importance from 1.0 to 2.0.
C22_ScoreTotal ==
  /\ ~ing.threw
  /\ \A k \in 1..Len(ing.chunks) :
       /\ ing.chunks[k].metadata.importance >= ImportanceScale
       /\ ing.chunks[k].metadata.importance <= 2 * ImportanceScale

\* ------------------------------------------------------------------------
\* C23
\* ------------------------------------------------------------------------
RECURSIVE SumTokens(_)
\* the token counts of the documents, added up
SumTokens(docs) ==
  IF docs = <<>> THEN 0
  ELSE Head(docs).metadata.totalTokens + SumTokens(Tail(docs))

\* C23: the context of an answer holds the documents of the retrieval in
\* descending order of score times importance, each of them whole, up to
\* the first that does not fit: their token counts add up to no more than
\* maxContextTokens, and the context is the longest such prefix.
C23_ContextBudget ==
  qry.built =>
    LET n == Len(qry.context)
    IN /\ SumTokens(qry.context) <= qry.maxContextTokens
       /\ n <= Len(qry.docs)
       /\ \A k \in 1..n : qry.context[k] = qry.docs[k]
       /\ \A k \in 1..(Len(qry.docs) - 1) :
            Weight(qry.docs[k]) >= Weight(qry.docs[k + 1])
       /\ SameBag([k \in 1..Len(qry.docs) |-> qry.docs[k].metadata.hash],
                  [k \in 1..Len(qry.retrieved) |-> qry.retrieved[k].metadata.hash])
       /\ n < Len(qry.docs) =>
            SumTokens(qry.context) + qry.docs[n + 1].metadata.totalTokens
              > qry.maxContextTokens

\* the retrieval gave the title page, of the greatest weight, after a page
\* of a smaller weight, and the sort has moved it to the front; the
\* document of 2 tokens does not fit after it, and the document after that
\* one, of 1 token, would have fitted: it is not in the context
C23_Witness ==
  /\ qry.built
  /\ Len(qry.docs) = 3
  /\ Len(qry.retrieved) = 3
  /\ Weight(qry.retrieved[1]) < Weight(qry.retrieved[3])
  /\ qry.docs[1] = qry.retrieved[3]
  /\ Weight(qry.docs[1]) > Weight(qry.docs[2])
  /\ Len(qry.context) = 1
  /\ qry.docs[2].metadata.totalTokens = 2
  /\ SumTokens(qry.context) + qry.docs[3].metadata.totalTokens
       <= qry.maxContextTokens

\* ------------------------------------------------------------------------
\* C24
\* ------------------------------------------------------------------------
\* the embedding requests of the ingestion that have not come back
InFlight == {k \in 1..Len(tasks) : tasks[k].st = "call"}

\* C24: an ingestion has at most batchSize embedding requests in flight;
\* while the embeds of the batch at offset i are running every chunk before
\* i is in the index and no chunk from i on is; when an embed of the batch
\* has failed for good the ingestion has ended in error and no chunk of that
\* batch is in the index.
C24_Batches ==
  LET inserted == Len(db.docs) - ing.base
  IN /\ Len(tasks) <= batchSize
     /\ Cardinality(InFlight) <= batchSize
     /\ tasks # <<>> => ing.pc = "embed"
     /\ ing.pc = "embed" => inserted = ing.i
     /\ ing.pc = "pause" => inserted = ing.i + batchSize
     /\ ing.embedFailed =>
          /\ ing.pc = "idle" /\ ing.result = "error"
          /\ inserted = ing.i

\* the embed of the second batch of d.pdf has failed for good: the five
\* chunks of the first batch are in the index, the sixth is not
C24_Witness ==
  /\ ing.embedFailed
  /\ ing.i = batchSize
  /\ Len(ing.chunks) = batchSize + 1
  /\ Len(db.docs) = batchSize

\* ------------------------------------------------------------------------
\* C25
\* ------------------------------------------------------------------------
\* C25: no two embedding requests for the same content hash are in flight
\* while the hash is not in the embedding cache: among the embeds of the
\* batch of the ingestion and the embed of the question, at most one request
\* for each hash.
C25_OneRequestPerHash ==
  LET calls == [k \in 1..Len(tasks) |-> tasks[k]]
                 \o (IF qry.pc = "embed" THEN <<qry.task>> ELSE <<>>)
  IN \A j, k \in 1..Len(calls) :
       /\ calls[j].st = "call" /\ calls[k].st = "call"
       /\ generateHash(calls[j].text) = generateHash(calls[k].text)
       /\ ~MapHas(embeddingCache, generateHash(calls[j].text))
       => j = k

\* ------------------------------------------------------------------------
\* C26
\* ------------------------------------------------------------------------
\* C26: the calls of onProgress of an ingestion: no call of the extraction
\* phase comes after a call of the embedding phase, the percentage does not
\* decrease, it is from 0 to 40 in the extraction phase and from 40 to 100
\* in the embedding phase, and the last call of an ingestion that has
\* succeeded reports 100.
C26_Progress ==
  LET p == ing.progress
  IN /\ \A i, j \in 1..Len(p) :
          i < j =>
            /\ ~(p[i].phase = "embedding" /\ p[j].phase = "extraction")
            /\ PercentageTimesTotal(p[i]) * p[j].total
                 <= PercentageTimesTotal(p[j]) * p[i].total
     /\ \A i \in 1..Len(p) :
          /\ p[i].total > 0
          /\ p[i].phase = "extraction" =>
               /\ PercentageTimesTotal(p[i]) >= 0
               /\ PercentageTimesTotal(p[i]) <= 40 * p[i].total
          /\ p[i].phase = "embedding" =>
               /\ PercentageTimesTotal(p[i]) >= 40 * p[i].total
               /\ PercentageTimesTotal(p[i]) <= 100 * p[i].total
     /\ ing.pc = "idle" /\ ing.result = "success" =>
          /\ p # <<>>
          /\ PercentageTimesTotal(p[Len(p)]) = 100 * p[Len(p)].total

\* ------------------------------------------------------------------------
\* C27
\* ------------------------------------------------------------------------
\* C27: whenever the initialized flag is set, the client handle and the
\* index are both set, after any sequence of calls of initialize (with any
\* outcome), importIndex, processPDF and cleanup.
C27_InitializedHandles == initialized => openai /\ ~db.null

\* ------------------------------------------------------------------------
\* C28
\* ------------------------------------------------------------------------
\* C28: on the worker path, an ingestion whose handling of a batch-complete
\* message has thrown does not end with success: its promise is rejected.
C28_ThrowRejects ==
  ing.path = "worker" /\ ing.threw /\ ing.pc = "idle" => ing.result = "error"

\* ------------------------------------------------------------------------
\* C29
\* ------------------------------------------------------------------------
\* C29: of two processPDF calls on the worker path that overlap, each
\* collects the chunks of the pages of its own file only, and is ended by
\* the terminal message of its own job only.
C29_OwnPagesOnly ==
  \A c \in CallIds :
    /\ \A k \in 1..Len(ovl[c].from) : ovl[c].from[k] = c
    /\ ovl[c].endedBy \in {0, c}

\* ------------------------------------------------------------------------
\* C30
\* ------------------------------------------------------------------------
\* C30: when the reranker has replied, whatever the reply, the passages
\* returned are a permutation of the candidates, cut to the limit of ten:
\* as many as the candidates (ten at most), each of them a candidate, none
\* of them twice.
C30_Permutation ==
  qry.rerank = "replied" =>
    /\ Len(qry.retrieved) = Min2(topK, Len(qry.candidates))
    /\ \A i \in 1..Len(qry.retrieved) :
         \E j \in 1..Len(qry.candidates) : qry.retrieved[i] = qry.candidates[j]
    /\ \A i, j \in 1..Len(qry.retrieved) :
         i # j => qry.retrieved[i] # qry.retrieved[j]

====
